---- MODULE Spec2Model ----
(***************************************************************************)
(* Model of the REViewer HTTP relay (class REViewerServer): the R session  *)
(* registry, the pending-request correlator with its timers, the HTTP      *)
(* handlers and the conversion of R's column-oriented payload.             *)
(*                                                                         *)
(* Every action is one callback of the Node.js event loop (an HTTP         *)
(* handler, the 'end' event of a request body, a setTimeout callback, or   *)
(* a call made by the extension); callbacks run to completion one at a     *)
(* time.  Date.now() is the variable now (milliseconds), which only the    *)
(* action Tick advances.                                                   *)
(***************************************************************************)
EXTENDS Integers, Sequences, FiniteSets, Bags, TLC

VARIABLES
    now,              \* Date.now(), in milliseconds
    rSession,         \* this.rSession: NoSession or an RSessionInfo record
    pendingRequests,  \* this.pendingRequests: the Map, as the sequence of its entries in insertion order
    requestCounter,   \* this.requestCounter
    promises,         \* the promise created by the n-th accepted issue (n = 1..requestCounter)
    calls,            \* how many times the resolve/reject continuations of the n-th promise were invoked (counted up to MaxCalls)
    timers,           \* ids whose setTimeout callback has not run yet
    responding,       \* POST /respond connections whose body is still being read: the bag of their closures
    reviewing,        \* the POST /review connection whose body arrives in chunks: NoReview or the closure of handleReviewRequest
    server,           \* this.server and its socket: "null", "binding" (listen called), "listening", "error"
    port,             \* this.port
    boundPort,        \* the port the operating system bound the listener to, NoPort while there is none
    retries,          \* how many times the 'error' handler of the current start() called listen again
    startPromise,     \* the promise returned by the latest start(): "none", "pending", "resolved", "rejected"
    occupied,         \* ports held by other processes
    peerData,         \* the serialised data frame the R session sends next (the `data` of a getData response, the body of a push)
    extensions,       \* vscode.extensions: the installed extensions among ExtensionIds, each with its isActive
    vscodeRConnection,\* the singleton VscodeRConnection: rExtension, isInitialized, initializationPromise
    extension,        \* module state of extension.ts: vscodeRAvailable, and the calls awaiting initialize()
    subscriptions,    \* the ISubscription objects created so far, by identity: once, and how often the callback was called
    subscribers,      \* eventBus.subscribers.get(eventType): the Set, as the sequence of its members in insertion order
    eventHistory,     \* eventBus.eventHistory.get(eventType): NoPayload or the last payload emitted
    moduleStates,     \* the IModuleState objects created so far, by identity: the module's id and the status
    modules,          \* moduleRegistry.modules: module id -> its state object, or NotRegistered
    activationOrder,  \* moduleRegistry.activationOrder
    awaiting,         \* the registry calls suspended at `await state.module.activate()` or `await state.module.deactivate()`
    last              \* what the most recent callback did (its response, callbacks fired, result)

vars == <<now, rSession, pendingRequests, requestCounter, promises, calls,
          timers, responding, reviewing, server, port, boundPort, retries,
          startPromise, occupied, peerData, extensions, vscodeRConnection,
          extension, subscriptions, subscribers, eventHistory, moduleStates,
          modules, activationOrder, awaiting, last>>

\* what lives in the extension host beside the server
vscodeRState == <<extensions, vscodeRConnection, extension>>
busState == <<subscriptions, subscribers, eventHistory>>
registryState == <<moduleStates, modules, activationOrder, awaiting>>
extensionHost == <<vscodeRState, busState, registryState>>

\* the listener's state
listener == <<server, port, boundPort, retries, startPromise, occupied>>

----------------------------------------------------------------------------
(* Bounds of the model *)

MaxClock == 60000       \* Date.now() is not advanced beyond this value
TickStep == 30000       \* milliseconds by which one Tick advances Date.now()
MaxRequests == 2        \* at most this many pull requests are accepted
MaxResponding == 2      \* at most this many POST /respond bodies are in flight at once
MaxLoad == 3            \* accepted pull requests plus POST /respond bodies in flight stay below this sum
MaxCalls == 2           \* invocations of a promise's continuations are counted up to this number
MaxChunks == 3          \* at most this many chunks of one POST /review body are delivered

(* Program constants *)

requestTimeout == 30000 \* private requestTimeout = 30000
timeout == 60000        \* const timeout = 60000 in isRSessionConnected
ConfiguredPort == 8765  \* the default of the setting reviewer.server.port
maxBodySize == 104857600 \* const maxBodySize = 100 * 1024 * 1024 in handleReviewRequest

----------------------------------------------------------------------------
(* JavaScript values *)

undefined == "<undefined>"          \* an absent string-valued property
NoSession == [kind |-> "null"]      \* this.rSession === null
Undefined == [kind |-> "undefined"] \* the value undefined where an object or array is expected

Has(obj, field) == field \in DOMAIN obj

(* Cell values of a column: number, string, boolean or null. *)
Num(n) == [t |-> "number", n |-> n, s |-> ""]
Str(s) == [t |-> "string", n |-> 0, s |-> s]
JsNull == [t |-> "null", n |-> 0, s |-> ""]

----------------------------------------------------------------------------
(* Strings that are inspected character by character (R type tags) are     *)
(* sequences of one-character strings.                                     *)

LowerOf ==
    [c \in {"A","B","C","D","E","F","G","H","I","J","K","L","M","N","O","P","Q","R","S","T","U","V","W","X","Y","Z"} |->
        CASE c = "A" -> "a" [] c = "B" -> "b" [] c = "C" -> "c" [] c = "D" -> "d"
          [] c = "E" -> "e" [] c = "F" -> "f" [] c = "G" -> "g" [] c = "H" -> "h"
          [] c = "I" -> "i" [] c = "J" -> "j" [] c = "K" -> "k" [] c = "L" -> "l"
          [] c = "M" -> "m" [] c = "N" -> "n" [] c = "O" -> "o" [] c = "P" -> "p"
          [] c = "Q" -> "q" [] c = "R" -> "r" [] c = "S" -> "s" [] c = "T" -> "t"
          [] c = "U" -> "u" [] c = "V" -> "v" [] c = "W" -> "w" [] c = "X" -> "x"
          [] c = "Y" -> "y" [] c = "Z" -> "z"]

\* String.prototype.toLowerCase
toLowerCase(str) ==
    [i \in 1..Len(str) |-> IF str[i] \in DOMAIN LowerOf THEN LowerOf[str[i]] ELSE str[i]]

\* str.replace(/['"]/g, '')
RECURSIVE stripQuotes(_)
stripQuotes(str) ==
    IF str = <<>> THEN <<>>
    ELSE IF Head(str) \in {"'", "\""} THEN stripQuotes(Tail(str))
         ELSE <<Head(str)>> \o stripQuotes(Tail(str))

\* String.prototype.includes
includes(str, key) ==
    \E i \in 1..(Len(str) - Len(key) + 1) : SubSeq(str, i, i + Len(key) - 1) = key

\* typeMap of mapRType, as its entries in insertion order (the order of Object.entries)
typeMap ==
    << [key |-> <<"n","u","m","e","r","i","c">>,         value |-> "numeric"],
       [key |-> <<"d","o","u","b","l","e">>,             value |-> "numeric"],
       [key |-> <<"i","n","t","e","g","e","r">>,         value |-> "integer"],
       [key |-> <<"c","h","a","r","a","c","t","e","r">>, value |-> "character"],
       [key |-> <<"f","a","c","t","o","r">>,             value |-> "factor"],
       [key |-> <<"l","o","g","i","c","a","l">>,         value |-> "logical"],
       [key |-> <<"d","a","t","e">>,                     value |-> "Date"],
       [key |-> <<"p","o","s","i","x","c","t">>,         value |-> "POSIXct"],
       [key |-> <<"p","o","s","i","x","t">>,             value |-> "POSIXct"],
       [key |-> <<"p","o","s","i","x","l","t">>,         value |-> "POSIXlt"],
       [key |-> <<"c","o","m","p","l","e","x">>,         value |-> "complex"],
       [key |-> <<"r","a","w">>,                         value |-> "raw"],
       [key |-> <<"l","i","s","t">>,                     value |-> "list"] >>

\* a loop that keeps looking after a match, so that the last matching entry decides
RECURSIVE firstMatch_LastWins(_, _)
firstMatch_LastWins(normalizedType, k) ==
    IF k > Len(typeMap) THEN "unknown"
    ELSE LET later == firstMatch_LastWins(normalizedType, k + 1)
         IN  IF later # "unknown" THEN later
             ELSE IF includes(normalizedType, typeMap[k].key) THEN typeMap[k].value
                  ELSE "unknown"

\* The for loop of mapRType over the entries from position k on
RECURSIVE firstMatch(_, _)
firstMatch(normalizedType, k) ==
    IF k > Len(typeMap) THEN "unknown"
    ELSE IF includes(normalizedType, typeMap[k].key) THEN typeMap[k].value
         ELSE firstMatch(normalizedType, k + 1)

mapRType(rType) == firstMatch(stripQuotes(toLowerCase(rType)), 1)

unknownTag == <<"u","n","k","n","o","w","n">>   \* the literal 'unknown'

----------------------------------------------------------------------------
(* convertToDataFrame                                                      *)
(*                                                                         *)
(* An RViewData object is a record holding the properties that are present *)
(* (name, data, nrow, ncol, colnames, coltypes, labels); data and labels   *)
(* are functions from column names, coltypes is                            *)
(* [kind |-> "array", items |-> <<tags>>] or [kind |-> "object", map |-> f]*)

\* a test that knows JSON null only
isNA_NullOnly(v) == v.t = "null"

\* value === null || value === 'NA'
isNA(v) == v.t = "null" \/ (v.t = "string" /\ v.s = "NA")

\* a lookup by position only, which finds nothing in an object keyed by column name
rTypeOf_ArrayOnly(rData, colName, index) ==
    LET ct == rData.coltypes
        raw == IF ct.kind = "array"
               THEN (IF index <= Len(ct.items) THEN ct.items[index] ELSE <<>>)
               ELSE <<>>
    IN  IF raw = <<>> THEN unknownTag ELSE raw

\* rData.coltypes[index] || 'unknown'  /  rData.coltypes[colName] || 'unknown'
rTypeOf(rData, colName, index) ==
    LET ct == rData.coltypes
        raw == IF ct.kind = "array"
               THEN (IF index <= Len(ct.items) THEN ct.items[index] ELSE <<>>)
               ELSE (IF colName \in DOMAIN ct.map THEN ct.map[colName] ELSE <<>>)
    IN  IF raw = <<>> THEN unknownTag ELSE raw

\* rData.labels?.[colName]
labelOf(rData, colName) ==
    IF Has(rData, "labels") /\ colName \in DOMAIN rData.labels
    THEN rData.labels[colName] ELSE undefined

\* rData.data[colName] || []
colDataOrEmpty(rData, colName) ==
    IF colName \in DOMAIN rData.data THEN rData.data[colName] ELSE <<>>

\* a column definition whose hasNA looks at the values that reach a row only
columnDef_WithinRows(rData, index) ==
    LET colName == rData.colnames[index]
        colData == colDataOrEmpty(rData, colName)
    IN  [name  |-> colName,
         type  |-> mapRType(rTypeOf(rData, colName, index)),
         label |-> labelOf(rData, colName),
         index |-> index - 1,
         hasNA |-> \E k \in 1..Len(colData) : k <= rData.nrow /\ isNA(colData[k])]

\* the IColumnDef pushed for the column at 1-based position index
columnDef(rData, index) ==
    LET colName == rData.colnames[index]
        colData == colDataOrEmpty(rData, colName)
    IN  [name  |-> colName,
         type  |-> mapRType(rTypeOf(rData, colName, index)),
         label |-> labelOf(rData, colName),
         index |-> index - 1,
         hasNA |-> \E k \in 1..Len(colData) : isNA(colData[k])]

\* a cell that recycles a short column the way R does, instead of padding it
cellOf_Recycled(rData, colName, i) ==
    IF colName \in DOMAIN rData.data /\ Len(rData.data[colName]) > 0
    THEN (LET value == rData.data[colName][(i % Len(rData.data[colName])) + 1]
          IN  IF isNA(value) THEN JsNull ELSE value)
    ELSE JsNull

\* the cell pushed for row i (0-based) and the column named colName
cellOf(rData, colName, i) ==
    IF colName \in DOMAIN rData.data /\ i < Len(rData.data[colName])
    THEN (LET value == rData.data[colName][i + 1]
          IN  IF isNA(value) THEN JsNull ELSE value)
    ELSE JsNull

\* the property accesses of convertToDataFrame that raise a TypeError
convertThrows(rData) ==
    \/ rData.kind # "object"
    \/ ~Has(rData, "colnames")
    \/ /\ Len(rData.colnames) > 0
       /\ (~Has(rData, "coltypes") \/ ~Has(rData, "data"))

TypeErrorMessage == "TypeError: Cannot read properties of undefined"

\* convertToDataFrame(rData) evaluated at time t: the IDataFrame, or the exception thrown
convertToDataFrame(rData, t) ==
    IF convertThrows(rData)
    THEN [threw |-> TRUE, message |-> TypeErrorMessage]
    ELSE [threw |-> FALSE,
          value |->
            [kind         |-> "IDataFrame",
             name         |-> IF Has(rData, "name") THEN rData.name ELSE undefined,
             columns      |-> [j \in 1..Len(rData.colnames) |-> columnDef(rData, j)],
             rows         |-> [i \in 1..rData.nrow |->
                                 [j \in 1..Len(rData.colnames) |->
                                     cellOf(rData, rData.colnames[j], i - 1)]],
             totalRows    |-> rData.nrow,
             totalColumns |-> rData.ncol,
             hasMore      |-> FALSE,
             fetchedAt    |-> t]]

----------------------------------------------------------------------------
(* Inputs of the handlers *)

\* data frames for which the extension asks
Names == {"mtcars"}

\* the body of a POST /review, or the data of a getData reply: a 2 x 2 data frame with one NA
mtcars ==
    [kind     |-> "object",
     name     |-> "mtcars",
     data     |-> [c \in {"mpg", "cyl"} |->
                     IF c = "mpg" THEN <<Num(21), Num(22)>> ELSE <<Num(6), Str("NA")>>],
     nrow     |-> 2,
     ncol     |-> 2,
     colnames |-> <<"mpg", "cyl">>,
     coltypes |-> [kind |-> "array",
                   items |-> << <<"n","u","m","e","r","i","c">>, <<"i","n","t","e","g","e","r">> >>]]

\* the same object without its name property
mtcarsNoName ==
    [kind     |-> "object",
     data     |-> mtcars.data,
     nrow     |-> 2,
     ncol     |-> 2,
     colnames |-> mtcars.colnames,
     coltypes |-> mtcars.coltypes]

\* an object that has a name and data but no colnames
mtcarsNoColnames ==
    [kind |-> "object", name |-> "mtcars", data |-> mtcars.data, nrow |-> 2, ncol |-> 2]

\* an object that has a name but no data
mtcarsNoData ==
    [kind     |-> "object",
     name     |-> "mtcars",
     nrow     |-> 2,
     ncol     |-> 2,
     colnames |-> mtcars.colnames,
     coltypes |-> mtcars.coltypes]

\* the data frame announcing three columns and naming two
mtcarsWrongNcol == [mtcars EXCEPT !.ncol = 3]

\* the data of a listDataFrames reply: an array of metadata records
dfList == [kind |-> "array", items |-> <<[name |-> "mtcars", rows |-> 2, cols |-> 2]>>]

\* a body on which JSON.parse throws
Malformed == [parses |-> FALSE]
SyntaxErrorMessage == "SyntaxError: Unexpected token in JSON"

\* bodies of POST /respond/{id}
RespondBodies ==
    { Malformed,
      [parses |-> TRUE, response |-> [kind |-> "object", error |-> "boom"]],
      [parses |-> TRUE, response |-> [kind |-> "object", data |-> dfList]],
      [parses |-> TRUE, response |-> [kind |-> "object", data |-> mtcars]] }

\* bodies of POST /review
ReviewBodies ==
    { Malformed,
      [parses |-> TRUE, rData |-> mtcars],
      [parses |-> TRUE, rData |-> mtcarsNoName],
      [parses |-> TRUE, rData |-> mtcarsNoColnames] }

\* bodies of POST /review, with the remaining defects of the payload
PushBodies ==
    ReviewBodies \cup { [parses |-> TRUE, rData |-> mtcarsNoData],
                        [parses |-> TRUE, rData |-> mtcarsWrongNcol] }

\* bodies of POST /register: empty, {rVersion, pid}, unparsable
NoPid == [t |-> "undefined", n |-> 0, s |-> ""]
RegisterBodies ==
    { [parses |-> TRUE, data |-> [rVersion |-> undefined, pid |-> NoPid]],
      [parses |-> TRUE, data |-> [rVersion |-> "4.3.1", pid |-> Num(101)]],
      Malformed }

\* an id that no request ever had
unknownId == <<0, 0>>

----------------------------------------------------------------------------
(* The Map pendingRequests: a sequence of entries in insertion order *)

MapHas(map, id) == \E k \in 1..Len(map) : map[k].id = id

MapGet(map, id) == map[CHOOSE k \in 1..Len(map) : map[k].id = id]

\* Map.prototype.set: an existing key keeps its position
MapSet(map, id, entry) ==
    IF MapHas(map, id)
    THEN [k \in 1..Len(map) |-> IF map[k].id = id THEN entry ELSE map[k]]
    ELSE Append(map, entry)

\* Map.prototype.clear in the place of delete
MapDelete_Clear(map, id) == SelectSeq(map, LAMBDA e : FALSE)

\* Map.prototype.delete
MapDelete(map, id) == SelectSeq(map, LAMBDA e : e.id # id)

\* the ids of the entries
MapKeys(map) == {map[k].id : k \in 1..Len(map)}

(* Promises: resolve and reject settle a promise that is still pending and *)
(* have no effect on a settled one.                                        *)

Settle(ps, n, outcome) ==
    IF ps[n].state = "pending" THEN [ps EXCEPT ![n] = outcome] ELSE ps

\* one more invocation of resolve or reject of the n-th promise
Called(cs, n) == [cs EXCEPT ![n] = IF @ < MaxCalls THEN @ + 1 ELSE @]

Fulfilled(value) == [state |-> "fulfilled", value |-> value]
Rejected(message) == [state |-> "rejected", message |-> message]

----------------------------------------------------------------------------
(* The server *)

\* no POST /review connection is being read
NoReview == [state |-> "none", bodySize |-> 0, chunks |-> 0, responses |-> 0]

NoPayload == "no payload"             \* eventHistory has no entry for the event type

\* the feature modules: the viewer, and the filter module that declares dependencies = ['viewer']
ModuleIds == {"viewer", "filter"}
NotRegistered == 0                     \* modules.get(id) is undefined

\* vscode-r is looked up under its current id, then under its former one
ExtensionIds == {"REditorSupport.r", "Ikuyadeu.r"}

NotInstalled == "not installed"

\* the extension host when the extension's module is loaded: nothing was looked up yet
InitExtensionHost ==
    /\ extensions = [id \in ExtensionIds |-> NotInstalled]
    /\ vscodeRConnection = [rExtension |-> undefined, isInitialized |-> FALSE,
                            initializationPromise |-> [state |-> "null"]]
    /\ extension = [vscodeRAvailable |-> FALSE, initializeVscodeR |-> "not called", awaiting |-> {}]
    /\ subscriptions = <<>>
    /\ subscribers = <<>>
    /\ eventHistory = NoPayload
    /\ moduleStates = <<>>
    /\ modules = [id \in ModuleIds |-> NotRegistered]
    /\ activationOrder = <<>>
    /\ awaiting = <<>>

Init ==
    /\ now = 0
    /\ rSession = NoSession
    /\ pendingRequests = <<>>
    /\ requestCounter = 0
    /\ promises = <<>>
    /\ calls = <<>>
    /\ timers = {}
    /\ responding = EmptyBag
    /\ reviewing = NoReview
    /\ server = "null"
    /\ port = ConfiguredPort
    /\ boundPort = {}
    /\ retries = 0
    /\ startPromise = "none"
    /\ occupied = {}
    /\ peerData = mtcars
    /\ InitExtensionHost
    /\ last = [op |-> "constructor", status |-> 0]

\* time passes
Tick ==
    /\ now + TickStep <= MaxClock
    /\ now' = now + TickStep
    /\ last' = [op |-> "tick", status |-> 0]
    /\ UNCHANGED <<rSession, pendingRequests, requestCounter, promises, calls,
                   timers, responding>>

\* a liveness test that still counts the session attached at exactly the timeout
isRSessionConnected_Inclusive ==
    IF rSession = NoSession THEN FALSE
    ELSE now - rSession.lastHeartbeat <= timeout

isRSessionConnected ==
    IF rSession = NoSession THEN FALSE
    ELSE now - rSession.lastHeartbeat < timeout

NotConnectedMessage == "R session not connected. Run reviewer_connect() in R."

\* an executor whose ids are made of the clock alone
issue_ClockId(op, type, params) ==
    LET n  == requestCounter + 1
        id == <<0, now>>
        request == [id |-> id, type |-> type, params |-> params,
                    createdAt |-> now, promise |-> n]
    IN  /\ requestCounter < MaxRequests
        /\ requestCounter + BagCardinality(responding) < MaxLoad
        /\ requestCounter' = n
        /\ pendingRequests' = MapSet(pendingRequests, id, request)
        /\ promises' = Append(promises, [state |-> "pending"])
        /\ calls' = Append(calls, 0)
        /\ timers' = timers \cup {[id |-> id, promise |-> n, due |-> now + requestTimeout]}
        /\ last' = [op |-> op, status |-> 0, threw |-> FALSE, id |-> id]
        /\ UNCHANGED <<now, rSession, responding>>

\* the executor of the promise returned by requestDataFramesList / requestDataFrame
issue(op, type, params) ==
    LET n  == requestCounter + 1
        id == <<n, now>>            \* `req_${++this.requestCounter}_${Date.now()}`
        request == [id |-> id, type |-> type, params |-> params,
                    createdAt |-> now, promise |-> n]
    IN  /\ requestCounter < MaxRequests
        /\ requestCounter + BagCardinality(responding) < MaxLoad
        /\ requestCounter' = n
        /\ pendingRequests' = MapSet(pendingRequests, id, request)
        /\ promises' = Append(promises, [state |-> "pending"])
        /\ calls' = Append(calls, 0)
        /\ timers' = timers \cup {[id |-> id, promise |-> n, due |-> now + requestTimeout]}
        /\ last' = [op |-> op, status |-> 0, threw |-> FALSE, id |-> id]
        /\ UNCHANGED <<now, rSession, responding>>

\* the rejected promise of an async function that throws
notConnected(op) ==
    /\ last' = [op |-> op, status |-> 0, threw |-> TRUE, message |-> NotConnectedMessage]
    /\ UNCHANGED <<now, rSession, pendingRequests, requestCounter, promises, calls,
                   timers, responding>>

requestDataFramesList ==
    IF ~isRSessionConnected
    THEN notConnected("requestDataFramesList")
    ELSE issue("requestDataFramesList", "listDataFrames", Undefined)

\* requestDataFrame without the isRSessionConnected() check
requestDataFrame_Unchecked(name) ==
    issue("requestDataFrame", "getData", [kind |-> "object", name |-> name])

requestDataFrame(name) ==
    IF ~isRSessionConnected
    THEN notConnected("requestDataFrame")
    ELSE issue("requestDataFrame", "getData", [kind |-> "object", name |-> name])

\* the setTimeout callback of a request
requestTimer(timer) ==
    /\ timer \in timers
    /\ timer.due <= now
    /\ timers' = timers \ {timer}
    /\ IF MapHas(pendingRequests, timer.id)
       THEN /\ pendingRequests' = MapDelete(pendingRequests, timer.id)
            /\ promises' = Settle(promises, timer.promise, Rejected("Request timeout"))
            /\ calls' = Called(calls, timer.promise)
       ELSE UNCHANGED <<pendingRequests, promises, calls>>
    /\ last' = [op |-> "timeout", status |-> 0, id |-> timer.id]
    /\ UNCHANGED <<now, rSession, requestCounter, responding>>

----------------------------------------------------------------------------
(* handleRequest: the routes that are answered in place *)

frame == <<now, rSession, pendingRequests, requestCounter, promises, calls,
           timers, responding>>

\* OPTIONS (CORS preflight), any url
handleOptions ==
    /\ last' = [op |-> "OPTIONS", status |-> 200]
    /\ UNCHANGED frame

\* GET /health
handleHealth ==
    /\ last' = [op |-> "GET /health", status |-> 200,
                body |-> [status |-> "ok", rSessionConnected |-> isRSessionConnected]]
    /\ UNCHANGED frame

\* GET /status
handleStatus ==
    /\ last' = [op |-> "GET /status", status |-> 200,
                body |-> [connected |-> isRSessionConnected,
                          session |-> IF rSession = NoSession THEN NoSession
                                      ELSE [registeredAt |-> rSession.registeredAt,
                                            lastHeartbeat |-> rSession.lastHeartbeat,
                                            rVersion |-> rSession.rVersion],
                          pendingRequests |-> Len(pendingRequests)]]
    /\ UNCHANGED frame

\* any other method and url
handleNotFound ==
    /\ last' = [op |-> "unknown route", status |-> 404, body |-> [error |-> "Not found"]]
    /\ UNCHANGED frame

----------------------------------------------------------------------------
(* POST /register: the 'end' callback, run when the body has arrived *)

\* a registration that updates an existing session instead of replacing it
handleRegisterRequest_Merge(body) ==
    IF ~body.parses
    THEN /\ last' = [op |-> "POST /register", status |-> 400, request |-> body,
                     body |-> [error |-> SyntaxErrorMessage], connectedFired |-> FALSE]
         /\ UNCHANGED frame
    ELSE LET data == body.data
             wasConnected == isRSessionConnected
         IN  /\ rSession' = [kind |-> "session",
                             registeredAt |-> IF rSession = NoSession THEN now
                                              ELSE rSession.registeredAt,
                             lastHeartbeat |-> now,
                             rVersion |-> IF rSession # NoSession /\ data.rVersion = undefined
                                          THEN rSession.rVersion ELSE data.rVersion,
                             pid |-> data.pid]
             /\ last' = [op |-> "POST /register", status |-> 200, request |-> body,
                         body |-> [status |-> "registered"],
                         connectedFired |-> ~wasConnected]
             /\ UNCHANGED <<now, pendingRequests, requestCounter, promises, calls,
                            timers, responding>>

\* a registration that notifies only when no session was ever registered
handleRegisterRequest_FirstOnly(body) ==
    IF ~body.parses
    THEN /\ last' = [op |-> "POST /register", status |-> 400, request |-> body,
                     body |-> [error |-> SyntaxErrorMessage], connectedFired |-> FALSE]
         /\ UNCHANGED frame
    ELSE LET data == body.data
         IN  /\ rSession' = [kind |-> "session",
                             registeredAt |-> now,
                             lastHeartbeat |-> now,
                             rVersion |-> data.rVersion,
                             pid |-> data.pid]
             /\ last' = [op |-> "POST /register", status |-> 200, request |-> body,
                         body |-> [status |-> "registered"],
                         connectedFired |-> (rSession = NoSession)]
             /\ UNCHANGED <<now, pendingRequests, requestCounter, promises, calls,
                            timers, responding>>

handleRegisterRequest(body) ==
    IF ~body.parses
    THEN /\ last' = [op |-> "POST /register", status |-> 400, request |-> body,
                     body |-> [error |-> SyntaxErrorMessage], connectedFired |-> FALSE]
         /\ UNCHANGED frame
    ELSE LET data == body.data
             wasConnected == isRSessionConnected
         IN  /\ rSession' = [kind |-> "session",
                             registeredAt |-> now,
                             lastHeartbeat |-> now,
                             rVersion |-> data.rVersion,
                             pid |-> data.pid]
             /\ last' = [op |-> "POST /register", status |-> 200, request |-> body,
                         body |-> [status |-> "registered"],
                         connectedFired |-> ~wasConnected]
             /\ UNCHANGED <<now, pendingRequests, requestCounter, promises, calls,
                            timers, responding>>

(* POST /heartbeat *)

\* a heartbeat that refuses a session whose liveness timeout has passed
handleHeartbeatRequest_Stale ==
    IF isRSessionConnected
    THEN /\ rSession' = [rSession EXCEPT !.lastHeartbeat = now]
         /\ last' = [op |-> "POST /heartbeat", status |-> 200, body |-> [status |-> "ok"]]
         /\ UNCHANGED <<now, pendingRequests, requestCounter, promises, calls,
                        timers, responding>>
    ELSE /\ last' = [op |-> "POST /heartbeat", status |-> 400,
                     body |-> [error |-> "Not registered"]]
         /\ UNCHANGED frame

\* a heartbeat that notifies when it brings a timed-out session back
handleHeartbeatRequest_Notifies ==
    IF rSession # NoSession
    THEN /\ rSession' = [rSession EXCEPT !.lastHeartbeat = now]
         /\ last' = [op |-> "POST /heartbeat", status |-> 200, body |-> [status |-> "ok"],
                     connectedFired |-> ~isRSessionConnected]
         /\ UNCHANGED <<now, pendingRequests, requestCounter, promises, calls,
                        timers, responding>>
    ELSE /\ last' = [op |-> "POST /heartbeat", status |-> 400,
                     body |-> [error |-> "Not registered"]]
         /\ UNCHANGED frame

\* a heartbeat that answers before it records the time
handleHeartbeatRequest_Deferred ==
    IF rSession # NoSession
    THEN /\ last' = [op |-> "POST /heartbeat", status |-> 200, body |-> [status |-> "ok"]]
         /\ UNCHANGED frame
    ELSE /\ last' = [op |-> "POST /heartbeat", status |-> 400,
                     body |-> [error |-> "Not registered"]]
         /\ UNCHANGED frame

handleHeartbeatRequest ==
    IF rSession # NoSession
    THEN /\ rSession' = [rSession EXCEPT !.lastHeartbeat = now]
         /\ last' = [op |-> "POST /heartbeat", status |-> 200, body |-> [status |-> "ok"]]
         /\ UNCHANGED <<now, pendingRequests, requestCounter, promises, calls,
                        timers, responding>>
    ELSE /\ last' = [op |-> "POST /heartbeat", status |-> 400,
                     body |-> [error |-> "Not registered"]]
         /\ UNCHANGED frame

(* GET /pending *)

NoRequest == [kind |-> "null"]
NoId == <<-1, -1>>      \* id: null in the reply to a poll

\* the loop with <= in place of <: among equal creation times the last one wins
RECURSIVE findOldest_LastWins(_, _, _)
findOldest_LastWins(map, k, oldestRequest) ==
    IF k > Len(map) THEN oldestRequest
    ELSE IF oldestRequest = NoRequest \/ map[k].createdAt <= oldestRequest.createdAt
         THEN findOldest_LastWins(map, k + 1, map[k])
         ELSE findOldest_LastWins(map, k + 1, oldestRequest)

\* the for loop over this.pendingRequests.values(), from position k on
RECURSIVE findOldest(_, _, _)
findOldest(map, k, oldestRequest) ==
    IF k > Len(map) THEN oldestRequest
    ELSE IF oldestRequest = NoRequest \/ map[k].createdAt < oldestRequest.createdAt
         THEN findOldest(map, k + 1, map[k])
         ELSE findOldest(map, k + 1, oldestRequest)

\* a poll that takes the oldest request out of the map
handlePendingRequest_Take ==
    LET oldestRequest == findOldest(pendingRequests, 1, NoRequest)
    IN  /\ rSession' = IF rSession # NoSession
                       THEN [rSession EXCEPT !.lastHeartbeat = now]
                       ELSE rSession
        /\ pendingRequests' = IF oldestRequest # NoRequest
                              THEN MapDelete(pendingRequests, oldestRequest.id)
                              ELSE pendingRequests
        /\ last' = IF oldestRequest # NoRequest
                   THEN [op |-> "GET /pending", status |-> 200,
                         body |-> [id |-> oldestRequest.id,
                                   type |-> oldestRequest.type,
                                   params |-> oldestRequest.params]]
                   ELSE [op |-> "GET /pending", status |-> 200, body |-> [id |-> NoId]]
        /\ UNCHANGED <<now, requestCounter, promises, calls, timers, responding>>

\* a poll that does not count as a heartbeat
handlePendingRequest_NoHeartbeat ==
    LET oldestRequest == findOldest(pendingRequests, 1, NoRequest)
    IN  /\ last' = IF oldestRequest # NoRequest
                   THEN [op |-> "GET /pending", status |-> 200,
                         body |-> [id |-> oldestRequest.id,
                                   type |-> oldestRequest.type,
                                   params |-> oldestRequest.params]]
                   ELSE [op |-> "GET /pending", status |-> 200, body |-> [id |-> NoId]]
        /\ UNCHANGED frame

\* a poll that puts the request it returns at the end of the map, so that polls take turns
handlePendingRequest_Rotate ==
    LET oldestRequest == findOldest(pendingRequests, 1, NoRequest)
    IN  /\ rSession' = IF rSession # NoSession
                       THEN [rSession EXCEPT !.lastHeartbeat = now]
                       ELSE rSession
        /\ pendingRequests' = IF oldestRequest # NoRequest
                              THEN Append(MapDelete(pendingRequests, oldestRequest.id), oldestRequest)
                              ELSE pendingRequests
        /\ last' = IF oldestRequest # NoRequest
                   THEN [op |-> "GET /pending", status |-> 200,
                         body |-> [id |-> oldestRequest.id,
                                   type |-> oldestRequest.type,
                                   params |-> oldestRequest.params]]
                   ELSE [op |-> "GET /pending", status |-> 200, body |-> [id |-> NoId]]
        /\ UNCHANGED <<now, requestCounter, promises, calls, timers, responding>>

handlePendingRequest ==
    LET oldestRequest == findOldest(pendingRequests, 1, NoRequest)
    IN  /\ rSession' = IF rSession # NoSession
                       THEN [rSession EXCEPT !.lastHeartbeat = now]
                       ELSE rSession
        /\ last' = IF oldestRequest # NoRequest
                   THEN [op |-> "GET /pending", status |-> 200,
                         body |-> [id |-> oldestRequest.id,
                                   type |-> oldestRequest.type,
                                   params |-> oldestRequest.params]]
                   ELSE [op |-> "GET /pending", status |-> 200, body |-> [id |-> NoId]]
        /\ UNCHANGED <<now, pendingRequests, requestCounter, promises, calls,
                       timers, responding>>

----------------------------------------------------------------------------
(* POST /respond/{id} *)

\* the synchronous part: look the request up, then wait for the body
handleRespondRequest(requestId) ==
    IF ~MapHas(pendingRequests, requestId)
    THEN /\ last' = [op |-> "POST /respond", status |-> 404, id |-> requestId,
                     body |-> [error |-> "Request not found or expired"]]
         /\ UNCHANGED frame
    ELSE /\ BagCardinality(responding) < MaxResponding
         /\ requestCounter + BagCardinality(responding) < MaxLoad
         /\ responding' = responding (+) SetToBag({[requestId |-> requestId,
                                                    pending |-> MapGet(pendingRequests, requestId)]})
         /\ last' = [op |-> "POST /respond (body pending)", status |-> 0, id |-> requestId]
         /\ UNCHANGED <<now, rSession, pendingRequests, requestCounter, promises, calls,
                        timers>>

\* if (response.error)
truthyError(response) == Has(response, "error") /\ response.error # ""

\* response.data
dataOf(response) == IF Has(response, "data") THEN response.data ELSE Undefined

\* the 'end' callback of a connection with the closure c, whose body is body
handleRespondEnd(c, body) ==
    /\ BagIn(c, responding)
    /\ LET requestId == c.requestId
           pending   == c.pending
           n         == pending.promise
       IN  /\ responding' = responding (-) SetToBag({c})
           /\ calls' = Called(calls, n)
           /\ IF ~body.parses
              THEN \* JSON.parse throws: the catch block rejects, nothing was deleted
                   /\ pendingRequests' = pendingRequests
                   /\ promises' = Settle(promises, n, Rejected(SyntaxErrorMessage))
                   /\ last' = [op |-> "POST /respond", status |-> 400, id |-> requestId,
                               request |-> body, type |-> pending.type,
                               body |-> [error |-> SyntaxErrorMessage],
                               called |-> "reject", message |-> SyntaxErrorMessage]
              ELSE LET response == body.response
                       converted == convertToDataFrame(dataOf(response), now)
                   IN  /\ pendingRequests' = MapDelete(pendingRequests, requestId)
                       /\ IF truthyError(response)
                          THEN /\ promises' = Settle(promises, n, Rejected(response.error))
                               /\ last' = [op |-> "POST /respond", status |-> 200,
                                           id |-> requestId, body |-> [status |-> "ok"],
                                           request |-> body, type |-> pending.type,
                                           called |-> "reject", message |-> response.error]
                          ELSE IF pending.type = "listDataFrames"
                          THEN /\ promises' = Settle(promises, n, Fulfilled(dataOf(response)))
                               /\ last' = [op |-> "POST /respond", status |-> 200,
                                           id |-> requestId, body |-> [status |-> "ok"],
                                           request |-> body, type |-> pending.type,
                                           called |-> "resolve", value |-> dataOf(response)]
                          ELSE IF converted.threw
                          THEN \* convertToDataFrame throws after the delete
                               /\ promises' = Settle(promises, n, Rejected(converted.message))
                               /\ last' = [op |-> "POST /respond", status |-> 400,
                                           id |-> requestId,
                                           request |-> body, type |-> pending.type,
                                           body |-> [error |-> converted.message],
                                           called |-> "reject", message |-> converted.message]
                          ELSE /\ promises' = Settle(promises, n, Fulfilled(converted.value))
                               /\ last' = [op |-> "POST /respond", status |-> 200,
                                           id |-> requestId, body |-> [status |-> "ok"],
                                           request |-> body, type |-> pending.type,
                                           called |-> "resolve", value |-> converted.value]
    /\ UNCHANGED <<now, rSession, requestCounter, timers>>

----------------------------------------------------------------------------
(* POST /review: the 'end' callback *)

\* !rData.name || !rData.data
missingNameOrData(rData) ==
    \/ ~Has(rData, "name") \/ rData.name = ""
    \/ ~Has(rData, "data")

\* a push handler that counts the push as a sign of life of the session
handleReviewRequest_Heartbeat(body) ==
    LET failed(message) ==
            /\ last' = [op |-> "POST /review", status |-> 400, request |-> body,
                        body |-> [status |-> "error", message |-> message],
                        emitted |-> FALSE, delivered |-> FALSE]
            /\ rSession' = IF rSession = NoSession THEN rSession
                                      ELSE [rSession EXCEPT !.lastHeartbeat = now]
            /\ UNCHANGED <<now, pendingRequests, requestCounter, promises, calls, timers, responding>>
    IN  IF ~body.parses THEN failed(SyntaxErrorMessage)
        ELSE IF missingNameOrData(body.rData)
        THEN failed("Invalid data format: missing name or data")
        ELSE LET converted == convertToDataFrame(body.rData, now)
             IN  IF converted.threw THEN failed(converted.message)
                 ELSE LET dataFrame == converted.value
                      IN  /\ last' = [op |-> "POST /review", status |-> 200,
                                      request |-> body,
                                      body |-> [status |-> "success",
                                                name |-> dataFrame.name,
                                                rows |-> dataFrame.totalRows,
                                                columns |-> dataFrame.totalColumns,
                                                parseTime |-> 0],
                                      emitted |-> TRUE,         \* eventBus.emit('data:loaded', ...)
                                      delivered |-> TRUE,       \* this.onDataReceived(dataFrame)
                                      dataFrame |-> dataFrame]
                          /\ rSession' = IF rSession = NoSession THEN rSession
                                         ELSE [rSession EXCEPT !.lastHeartbeat = now]
                          /\ UNCHANGED <<now, pendingRequests, requestCounter, promises, calls, timers, responding>>

handleReviewRequest(body) ==
    LET failed(message) ==
            /\ last' = [op |-> "POST /review", status |-> 400, request |-> body,
                        body |-> [status |-> "error", message |-> message],
                        emitted |-> FALSE, delivered |-> FALSE]
            /\ UNCHANGED frame
    IN  IF ~body.parses THEN failed(SyntaxErrorMessage)
        ELSE IF missingNameOrData(body.rData)
        THEN failed("Invalid data format: missing name or data")
        ELSE LET converted == convertToDataFrame(body.rData, now)
             IN  IF converted.threw THEN failed(converted.message)
                 ELSE LET dataFrame == converted.value
                      IN  /\ last' = [op |-> "POST /review", status |-> 200,
                                      request |-> body,
                                      body |-> [status |-> "success",
                                                name |-> dataFrame.name,
                                                rows |-> dataFrame.totalRows,
                                                columns |-> dataFrame.totalColumns,
                                                parseTime |-> 0],
                                      emitted |-> TRUE,         \* eventBus.emit('data:loaded', ...)
                                      delivered |-> TRUE,       \* this.onDataReceived(dataFrame)
                                      dataFrame |-> dataFrame]
                          /\ UNCHANGED frame

----------------------------------------------------------------------------
(* POST /review: the body arriving in chunks *)

ChunkLengths == {1, 52428800, 104857600}    \* chunk.length: one byte, 50 MiB, 100 MiB

\* handleReviewRequest up to the registration of its listeners
handleReviewStart ==
    /\ reviewing.state # "reading"
    /\ reviewing' = [state |-> "reading", bodySize |-> 0, chunks |-> 0, responses |-> 0]
    /\ last' = [op |-> "POST /review (body pending)", status |-> 0]
    /\ UNCHANGED <<frame, listener, peerData, extensionHost>>

\* the mutant: the oversized request is answered but not destroyed
handleReviewData_NoDestroy(length) ==
    LET bodySize == reviewing.bodySize + length
    IN  /\ reviewing.state = "reading"
        /\ reviewing.chunks < MaxChunks
        /\ IF bodySize > maxBodySize
           THEN /\ reviewing' = [reviewing EXCEPT !.bodySize = bodySize,
                                                  !.chunks = @ + 1, !.responses = @ + 1]
                /\ last' = [op |-> "POST /review (data)", status |-> 413,
                            body |-> [status |-> "error",
                                      message |-> "Data too large. Maximum size is 100MB."],
                            emitted |-> FALSE, delivered |-> FALSE]
           ELSE /\ reviewing' = [reviewing EXCEPT !.bodySize = bodySize, !.chunks = @ + 1]
                /\ last' = [op |-> "POST /review (data)", status |-> 0]
        /\ UNCHANGED <<frame, listener, peerData, extensionHost>>

\* req.on('data', ...)
handleReviewData(length) ==
    LET bodySize == reviewing.bodySize + length
    IN  /\ reviewing.state = "reading"
        /\ reviewing.chunks < MaxChunks
        /\ IF bodySize > maxBodySize
           THEN /\ reviewing' = [state |-> "destroyed",      \* req.destroy(): no 'data' or 'end' follows
                                 bodySize |-> bodySize, chunks |-> reviewing.chunks + 1,
                                 responses |-> reviewing.responses + 1]
                /\ last' = [op |-> "POST /review (data)", status |-> 413,
                            body |-> [status |-> "error",
                                      message |-> "Data too large. Maximum size is 100MB."],
                            emitted |-> FALSE, delivered |-> FALSE]
           ELSE /\ reviewing' = [reviewing EXCEPT !.bodySize = bodySize, !.chunks = @ + 1]
                /\ last' = [op |-> "POST /review (data)", status |-> 0]
        /\ UNCHANGED <<frame, listener, peerData, extensionHost>>

\* req.on('end', ...) of a body that arrived in chunks
handleReviewEnd(body) ==
    /\ reviewing.state = "reading"
    /\ body.parses => reviewing.bodySize > 0
    /\ handleReviewRequest(body)
    /\ reviewing' = [reviewing EXCEPT !.state = "done", !.responses = @ + 1]
    /\ UNCHANGED <<listener, peerData, extensionHost>>

\* req.on('error', ...)
handleReviewError ==
    /\ reviewing.state = "reading"
    /\ reviewing' = [reviewing EXCEPT !.state = "failed", !.responses = @ + 1]
    /\ last' = [op |-> "POST /review (error)", status |-> 500,
                body |-> [status |-> "error", message |-> "Server error"],
                emitted |-> FALSE, delivered |-> FALSE]
    /\ UNCHANGED <<frame, listener, peerData, extensionHost>>

----------------------------------------------------------------------------
(* The listener: start(), the events of http.Server, getPort(), stop() *)

ErrorCodes == {"EADDRINUSE", "EACCES"}

start ==
    IF server # "null"
    THEN /\ last' = [op |-> "start", status |-> 0, alreadyRunning |-> TRUE]
         /\ UNCHANGED <<frame, reviewing, listener, peerData, extensionHost>>
    ELSE /\ server' = "binding"                 \* this.server.listen(this.port, 'localhost', ...)
         /\ retries' = 0
         /\ startPromise' = "pending"
         /\ last' = [op |-> "start", status |-> 0, alreadyRunning |-> FALSE]
         /\ UNCHANGED <<frame, reviewing, port, boundPort, occupied, peerData, extensionHost>>

\* the 'listening' event: the callback given to the first listen
onListening ==
    /\ server = "binding"
    /\ port \notin occupied
    /\ server' = "listening"
    /\ boundPort' = {port}
    /\ startPromise' = IF startPromise = "pending" THEN "resolved" ELSE startPromise
    /\ last' = [op |-> "listening", status |-> 0, port |-> port]
    /\ UNCHANGED <<frame, reviewing, port, retries, occupied, peerData, extensionHost>>

\* this.server.on('error', ...)
onError(code) ==
    /\ server = "binding"
    /\ code = "EADDRINUSE" => port \in occupied
    /\ IF code = "EADDRINUSE"
       THEN /\ port' = port + 1
            /\ retries' = retries + 1          \* this.server?.listen(this.port, 'localhost')
            /\ UNCHANGED <<server, startPromise>>
       ELSE /\ server' = "error"
            /\ startPromise' = IF startPromise = "pending" THEN "rejected" ELSE startPromise
            /\ UNCHANGED <<port, retries>>
    /\ last' = [op |-> "error", status |-> 0, code |-> code]
    /\ UNCHANGED <<frame, reviewing, boundPort, occupied, peerData, extensionHost>>

getPort ==
    /\ last' = [op |-> "getPort", status |-> 0, value |-> port]
    /\ UNCHANGED <<frame, reviewing, listener, peerData, extensionHost>>

\* stop() while no listen is in progress
stop ==
    /\ server \in {"listening", "error"}
    /\ server' = "null"
    /\ boundPort' = {}
    /\ last' = [op |-> "stop", status |-> 0]
    /\ UNCHANGED <<frame, reviewing, port, retries, startPromise, occupied, peerData, extensionHost>>

----------------------------------------------------------------------------

\* ids a peer may name in POST /respond/{id}: issued ones (pending or retired) and one never issued
RespondIds == MapKeys(pendingRequests) \cup {t.id : t \in timers} \cup {unknownId}

\* the registrations of a peer that sends no version and no pid, and the unparsable one
RelayRegisterBodies == {body \in RegisterBodies : body.parses => body.data.rVersion = undefined}

\* the relay on a free port; HTTP requests arrive only while the server listens
Next ==
    \/ server = "null" /\ start         \* the extension calls start() once, when it activates
    \/ onListening
    \/ /\ \/ Tick
          \/ requestDataFramesList
          \/ \E name \in Names : requestDataFrame(name)
          \/ \E timer \in timers : requestTimer(timer)
       /\ UNCHANGED <<reviewing, listener, peerData, extensionHost>>
    \/ /\ server = "listening"
       /\ \/ handleOptions
          \/ handleHealth
          \/ handleStatus
          \/ handleNotFound
          \/ \E body \in RelayRegisterBodies : handleRegisterRequest(body)
          \/ handleHeartbeatRequest
          \/ handlePendingRequest
          \/ \E requestId \in RespondIds : handleRespondRequest(requestId)
          \/ \E c \in BagToSet(responding), body \in RespondBodies : handleRespondEnd(c, body)
          \/ \E body \in ReviewBodies : handleReviewRequest(body)
       /\ UNCHANGED <<reviewing, listener, peerData, extensionHost>>

Spec == Init /\ [][Next]_vars

----------------------------------------------------------------------------
(* The session registry on its own: registrations with every body, *)
(* heartbeats, polls and the pull requests that depend on the session *)

\* the server after start() completed on the configured port
InitListening ==
    /\ now = 0
    /\ rSession = NoSession
    /\ pendingRequests = <<>>
    /\ requestCounter = 0
    /\ promises = <<>>
    /\ calls = <<>>
    /\ timers = {}
    /\ responding = EmptyBag
    /\ reviewing = NoReview
    /\ server = "listening"
    /\ port = ConfiguredPort
    /\ boundPort = {ConfiguredPort}
    /\ retries = 0
    /\ startPromise = "resolved"
    /\ occupied = {}
    /\ peerData = mtcars
    /\ InitExtensionHost
    /\ last = [op |-> "listening", status |-> 0, port |-> ConfiguredPort]

NextSession ==
    /\ \/ Tick
       \/ requestDataFramesList
       \/ \E name \in Names : requestDataFrame(name)
       \/ \E timer \in timers : requestTimer(timer)
       \/ handleHealth
       \/ handleStatus
       \/ \E body \in RegisterBodies : handleRegisterRequest(body)
       \/ handleHeartbeatRequest
       \/ handlePendingRequest
    /\ UNCHANGED <<reviewing, listener, peerData, extensionHost>>

SpecSession == InitListening /\ [][NextSession]_vars

----------------------------------------------------------------------------
(* The push path on its own: POST /review bodies arriving in chunks *)

NextPush ==
    \/ handleReviewStart
    \/ \E length \in ChunkLengths : handleReviewData(length)
    \/ \E body \in PushBodies : handleReviewEnd(body)
    \/ handleReviewError
    \/ /\ \/ Tick
          \/ handleHealth
       /\ UNCHANGED <<reviewing, listener, peerData, extensionHost>>

SpecPush == InitListening /\ [][NextPush]_vars

----------------------------------------------------------------------------
(* The listener on its own: start() while other processes hold some of the *)
(* ports it tries                                                          *)

OccupiedPorts == {ConfiguredPort, ConfiguredPort + 1, ConfiguredPort + 2}

InitStart ==
    /\ now = 0
    /\ rSession = NoSession
    /\ pendingRequests = <<>>
    /\ requestCounter = 0
    /\ promises = <<>>
    /\ calls = <<>>
    /\ timers = {}
    /\ responding = EmptyBag
    /\ reviewing = NoReview
    /\ server = "null"
    /\ port = ConfiguredPort
    /\ boundPort = {}
    /\ retries = 0
    /\ startPromise = "none"
    /\ occupied \in SUBSET OccupiedPorts
    /\ peerData = mtcars
    /\ InitExtensionHost
    /\ last = [op |-> "constructor", status |-> 0]

NextStart ==
    \/ start
    \/ onListening
    \/ \E code \in ErrorCodes : onError(code)
    \/ getPort
    \/ stop
    \/ /\ server = "listening"
       /\ handleHealth
       /\ UNCHANGED <<reviewing, listener, peerData, extensionHost>>

SpecStart == InitStart /\ [][NextStart]_vars

----------------------------------------------------------------------------
(* The liveness test on its own: sessions of every age, read by the two    *)
(* handlers that report isRSessionConnected()                              *)

Instants == {0, 1, 1000, 59999, 60000, 60001, 61000}   \* values of Date.now(), in milliseconds

\* the sessions a peer can have left behind at time t: registered, then kept alive until some later instant
SessionsAt(t) ==
    {[kind |-> "session", registeredAt |-> r, lastHeartbeat |-> h,
      rVersion |-> undefined, pid |-> NoPid] :
        <<r, h>> \in {x \in Instants \X Instants : x[1] <= x[2] /\ x[2] <= t}}

InitAttached ==
    /\ now \in Instants
    /\ rSession \in {NoSession} \cup SessionsAt(now)
    /\ pendingRequests = <<>>
    /\ requestCounter = 0
    /\ promises = <<>>
    /\ calls = <<>>
    /\ timers = {}
    /\ responding = EmptyBag
    /\ reviewing = NoReview
    /\ server = "listening"
    /\ port = ConfiguredPort
    /\ boundPort = {ConfiguredPort}
    /\ retries = 0
    /\ startPromise = "resolved"
    /\ occupied = {}
    /\ peerData = mtcars
    /\ InitExtensionHost
    /\ last = [op |-> "listening", status |-> 0, port |-> ConfiguredPort]

NextAttached ==
    /\ \/ handleHealth
       \/ handleStatus
    /\ UNCHANGED <<reviewing, listener, peerData, extensionHost>>

SpecAttached == InitAttached /\ [][NextAttached]_vars

----------------------------------------------------------------------------
(* The normalizer on its two paths: the payload the R session sends is     *)
(* drawn in the initial state, then pushed (POST /review) or returned as   *)
(* the data of a getData reply (POST /respond)                             *)

MaxRows   == 3     \* largest nrow of a drawn payload
MaxColLen == 2     \* longest column array of a drawn payload
MaxShortLen == 1   \* longest array of the second column of a drawn payload

\* JSON values of a cell: a number, the marker "NA", null, a string that differs from the marker by case
Cells == {Num(1), Str("NA"), JsNull, Str("na")}

ColumnArrays == UNION {[1..n -> Cells] : n \in 0..MaxColLen}

\* the arrays of the second column, which is the shorter one
ShortColumnArrays == UNION {[1..n -> Cells] : n \in 0..MaxShortLen}

\* rData.data: both columns present, or the second one absent
DataMaps ==
    {[c \in {"a", "b"} |-> IF c = "a" THEN xa ELSE xb] : xa \in ColumnArrays, xb \in ShortColumnArrays}
    \cup [{"a"} -> ColumnArrays]

\* payloads that vary in their cells, their nrow and their ncol
DataPayloads ==
    {[kind     |-> "object",
      name     |-> "df",
      data     |-> d,
      nrow     |-> n,
      ncol     |-> c,
      colnames |-> <<"a", "b">>,
      coltypes |-> [kind |-> "array",
                    items |-> << <<"n","u","m","e","r","i","c">>, <<"c","h","a","r","a","c","t","e","r">> >>]] :
        d \in DataMaps, n \in 0..MaxRows, c \in {2, 3}}

\* R type tags as class() or typeof() print them, with the case and the quotes of their serialisation
Tags ==
    { <<"n","u","m","e","r","i","c">>,
      <<"D","O","U","B","L","E">>,
      <<"I","n","t","e","g","e","r">>,
      <<"c","h","a","r","a","c","t","e","r">>,
      <<"f","a","c","t","o","r">>,
      <<"l","o","g","i","c","a","l">>,
      <<"D","a","t","e">>,
      <<"'","P","O","S","I","X","c","t","'",","," ","'","P","O","S","I","X","t","'">>,
      <<"P","O","S","I","X","l","t"," ","P","O","S","I","X","t">>,
      <<"n","u","m","e","r","i","c","_","l","i","s","t">>,
      <<"\"","c","o","m","p","l","e","x","\"">>,
      <<"r","'","a","w">>,
      <<"h","a","v","e","n","_","l","a","b","e","l","l","e","d">> }

\* coltypes as a positional array or as an object keyed by column name, complete or with the second tag missing or empty
ColTypes ==
    {[kind |-> "array", items |-> <<ta, tb>>] : ta \in Tags, tb \in Tags \cup {<<>>}}
    \cup {[kind |-> "array", items |-> <<ta>>] : ta \in Tags}
    \cup {[kind |-> "object", map |-> [c \in {"a", "b"} |-> IF c = "a" THEN ta ELSE tb]] :
             ta \in Tags, tb \in Tags \cup {<<>>}}
    \cup {[kind |-> "object", map |-> [c \in {"a"} |-> ta]] : ta \in Tags}

\* payloads that vary in their type tags, with distinct column names or with the same name twice
TypePayloads ==
    {[kind     |-> "object",
      name     |-> "df",
      data     |-> [c \in {"a", "b"} |-> <<Num(1)>>],
      nrow     |-> 1,
      ncol     |-> 2,
      colnames |-> cn,
      coltypes |-> ct] : ct \in ColTypes, cn \in {<<"a", "b">>, <<"a", "a">>}}

Payloads == DataPayloads \cup TypePayloads

InitNormalizer ==
    /\ now = 0
    /\ rSession = NoSession
    /\ pendingRequests = <<>>
    /\ requestCounter = 0
    /\ promises = <<>>
    /\ calls = <<>>
    /\ timers = {}
    /\ responding = EmptyBag
    /\ reviewing = NoReview
    /\ server = "listening"
    /\ port = ConfiguredPort
    /\ boundPort = {ConfiguredPort}
    /\ retries = 0
    /\ startPromise = "resolved"
    /\ occupied = {}
    /\ peerData \in Payloads
    /\ InitExtensionHost
    /\ last = [op |-> "listening", status |-> 0, port |-> ConfiguredPort]

\* one push, or one getData request answered with the payload
NextNormalizer ==
    /\ \/ handleReviewRequest([parses |-> TRUE, rData |-> peerData])
       \/ handleRegisterRequest([parses |-> TRUE, data |-> [rVersion |-> undefined, pid |-> NoPid]])
       \/ requestCounter = 0 /\ \E name \in Names : requestDataFrame(name)
       \/ /\ responding = EmptyBag
          /\ \E k \in 1..Len(pendingRequests) : handleRespondRequest(pendingRequests[k].id)
       \/ \E c \in BagToSet(responding) :
              handleRespondEnd(c, [parses |-> TRUE,
                                   response |-> [kind |-> "object", data |-> peerData]])
    /\ UNCHANGED <<reviewing, listener, peerData, extensionHost>>

SpecNormalizer == InitNormalizer /\ [][NextNormalizer]_vars

----------------------------------------------------------------------------
(* The consumers of a push: the subscribers of 'data:loaded' on the event  *)
(* bus and the sink given to setOnDataReceived, each of which returns or   *)
(* throws                                                                  *)

ConsumerErrorMessage == "createOrShowWithData failed"   \* the message of what a consumer throws

SubscriberOutcomes == {"none", "returns", "throws"}     \* no subscriber, or what the subscriber's callback does
SinkOutcomes == {"unset", "returns", "throws"}          \* this.onDataReceived is null, or what the callback does

\* the 'end' callback of POST /review with the given behaviour of the consumers
handleReviewConsumers(body, subscriber, sink) ==
    LET failed(message, emitted, delivered) ==
            /\ last' = [op |-> "POST /review", status |-> 400, request |-> body,
                        body |-> [status |-> "error", message |-> message],
                        emitted |-> emitted, delivered |-> delivered,
                        subscriber |-> subscriber, sink |-> sink]
            /\ UNCHANGED frame
    IN  IF ~body.parses THEN failed(SyntaxErrorMessage, FALSE, FALSE)
        ELSE IF missingNameOrData(body.rData)
        THEN failed("Invalid data format: missing name or data", FALSE, FALSE)
        ELSE LET converted == convertToDataFrame(body.rData, now)
             IN  IF converted.threw THEN failed(converted.message, FALSE, FALSE)
                 \* eventBus.emit catches what a subscriber throws; the sink is called inside the try block
                 ELSE IF sink = "throws" THEN failed(ConsumerErrorMessage, TRUE, TRUE)
                 ELSE LET dataFrame == converted.value
                      IN  /\ last' = [op |-> "POST /review", status |-> 200,
                                      request |-> body,
                                      body |-> [status |-> "success",
                                                name |-> dataFrame.name,
                                                rows |-> dataFrame.totalRows,
                                                columns |-> dataFrame.totalColumns,
                                                parseTime |-> 0],
                                      emitted |-> TRUE,
                                      delivered |-> sink # "unset",
                                      subscriber |-> subscriber, sink |-> sink,
                                      dataFrame |-> dataFrame]
                          /\ UNCHANGED frame

NextConsumers ==
    /\ \/ \E body \in ReviewBodies, subscriber \in SubscriberOutcomes, sink \in SinkOutcomes :
              handleReviewConsumers(body, subscriber, sink)
       \/ Tick
       \/ handleHealth
       \/ handleStatus
       \/ \E body \in RelayRegisterBodies : handleRegisterRequest(body)
       \/ handleHeartbeatRequest
    /\ UNCHANGED <<reviewing, listener, peerData, extensionHost>>

SpecConsumers == InitListening /\ [][NextConsumers]_vars

----------------------------------------------------------------------------
(* The payloads POST /review is to refuse, sent on either path *)

\* the valid data frame and the same one with each of its defects
PullPayloads == {mtcars, mtcarsNoName, mtcarsNoData, mtcarsNoColnames, mtcarsWrongNcol}

InitPull ==
    /\ now = 0
    /\ rSession = NoSession
    /\ pendingRequests = <<>>
    /\ requestCounter = 0
    /\ promises = <<>>
    /\ calls = <<>>
    /\ timers = {}
    /\ responding = EmptyBag
    /\ reviewing = NoReview
    /\ server = "listening"
    /\ port = ConfiguredPort
    /\ boundPort = {ConfiguredPort}
    /\ retries = 0
    /\ startPromise = "resolved"
    /\ occupied = {}
    /\ peerData \in PullPayloads
    /\ InitExtensionHost
    /\ last = [op |-> "listening", status |-> 0, port |-> ConfiguredPort]

NextPull ==
    \/ NextNormalizer
    \/ /\ \/ Tick
          \/ handleHeartbeatRequest
       /\ UNCHANGED <<reviewing, listener, peerData, extensionHost>>

SpecPull == InitPull /\ [][NextPull]_vars

----------------------------------------------------------------------------
(* The vscode-r connection: initialize() of VscodeRConnection and its two  *)
(* callers in extension.ts, initializeVscodeR at activation and the        *)
(* command reviewer.viewDataFrame                                          *)

serverState == <<frame, reviewing, listener, peerData>>

\* the user installs vscode-r under one of its ids; it is not activated yet
installExtension(id) ==
    /\ extensions[id] = NotInstalled
    /\ extensions' = [extensions EXCEPT ![id] = "inactive"]
    /\ last' = [op |-> "install", status |-> 0, id |-> id]
    /\ UNCHANGED <<vscodeRConnection, extension, serverState>>

\* vscode.extensions.getExtension under the current id, then under the former one
getExtension ==
    IF extensions["REditorSupport.r"] # NotInstalled THEN "REditorSupport.r"
    ELSE IF extensions["Ikuyadeu.r"] # NotInstalled THEN "Ikuyadeu.r"
    ELSE undefined

\* _doInitialize up to its first await: the connection it leaves
doInitialize ==
    LET rExtension == getExtension
    IN  IF rExtension = undefined
        THEN [vscodeRConnection EXCEPT !.rExtension = undefined,
                                       !.initializationPromise = [state |-> "fulfilled", value |-> FALSE]]
        ELSE IF extensions[rExtension] = "active"
        THEN [vscodeRConnection EXCEPT !.rExtension = rExtension,
                                       !.isInitialized = TRUE,
                                       !.initializationPromise = [state |-> "fulfilled", value |-> TRUE]]
        ELSE \* await this.rExtension.activate()
             [vscodeRConnection EXCEPT !.rExtension = rExtension,
                                       !.initializationPromise = [state |-> "pending"]]

\* initialize(): the connection after the call; an existing promise is returned as it is
initialize ==
    IF vscodeRConnection.initializationPromise.state # "null"
    THEN vscodeRConnection
    ELSE doInitialize

\* what a caller does once the promise it awaits has the value available
resume(caller, available) ==
    IF caller = "initializeVscodeR"
    THEN [op |-> "initializeVscodeR", status |-> 0, vscodeRAvailable |-> available]
    ELSE [op |-> "reviewer.viewDataFrame", status |-> 0, vscodeRAvailable |-> available,
          strategy |-> IF available THEN "vscode-r" ELSE "other"]

\* a caller of `vscodeRAvailable = await vscodeRConnection.initialize()`
callInitialize(caller) ==
    LET connection == initialize
        promise == connection.initializationPromise
    IN  /\ vscodeRConnection' = connection
        /\ IF promise.state = "fulfilled"
           THEN /\ extension' = [extension EXCEPT
                                    !.vscodeRAvailable = promise.value,
                                    !.initializeVscodeR = IF caller = "initializeVscodeR"
                                                          THEN "called" ELSE @]
                /\ last' = resume(caller, promise.value)
           ELSE /\ extension' = [extension EXCEPT
                                    !.awaiting = @ \cup {caller},
                                    !.initializeVscodeR = IF caller = "initializeVscodeR"
                                                          THEN "called" ELSE @]
                /\ last' = [op |-> caller, status |-> 0, awaiting |-> TRUE]
        /\ UNCHANGED <<extensions, serverState>>

\* activate() of extension.ts reaches initializeVscodeR, once
initializeVscodeR ==
    /\ extension.initializeVscodeR = "not called"
    /\ callInitialize("initializeVscodeR")

\* the command reviewer.viewDataFrame, up to the choice of its strategy
viewDataFrame ==
    /\ "reviewer.viewDataFrame" \notin extension.awaiting
    /\ IF extension.vscodeRAvailable
       THEN /\ last' = resume("reviewer.viewDataFrame", TRUE)
            /\ UNCHANGED <<extensions, vscodeRConnection, extension, serverState>>
       ELSE callInitialize("reviewer.viewDataFrame")

\* rExtension.activate() returns (ok) or throws: _doInitialize finishes and the callers of initialize() resume
activateSettles(ok) ==
    /\ vscodeRConnection.initializationPromise.state = "pending"
    /\ vscodeRConnection' = [vscodeRConnection EXCEPT
                                !.isInitialized = ok,
                                !.initializationPromise = [state |-> "fulfilled", value |-> ok]]
    /\ extensions' = IF ok THEN [extensions EXCEPT ![vscodeRConnection.rExtension] = "active"]
                     ELSE extensions
    /\ extension' = [extension EXCEPT
                        !.vscodeRAvailable = IF extension.awaiting = {} THEN @ ELSE ok,
                        !.awaiting = {}]
    /\ last' = [op |-> "activate settles", status |-> 0, ok |-> ok, resumed |-> extension.awaiting]
    /\ UNCHANGED serverState

\* another extension (or the user) activates vscode-r
extensionActivates(id) ==
    /\ extensions[id] = "inactive"
    /\ extensions' = [extensions EXCEPT ![id] = "active"]
    /\ last' = [op |-> "extension activates", status |-> 0, id |-> id]
    /\ UNCHANGED <<vscodeRConnection, extension, serverState>>

NextVscodeR ==
    \/ /\ \/ \E id \in ExtensionIds : installExtension(id)
          \/ \E id \in ExtensionIds : extensionActivates(id)
          \/ initializeVscodeR
          \/ viewDataFrame
          \/ \E ok \in BOOLEAN : activateSettles(ok)
       /\ UNCHANGED <<busState, registryState>>
    \/ handleHealth /\ UNCHANGED <<reviewing, listener, peerData, extensionHost>>

SpecVscodeR == InitListening /\ [][NextVscodeR]_vars

----------------------------------------------------------------------------
(* The event bus, for one event type: on, once, the unsubscribe function   *)
(* they return, emit, clear and clearAll                                   *)

MaxSubscriptions == 2    \* subscriptions created in one run
MaxEmits == 3            \* emits in one run

EventPayloads == {"payload 1", "payload 2"}

\* on(eventType, callback) when once is FALSE, once(eventType, callback) when it is TRUE
subscribe(once) ==
    /\ Len(subscriptions) < MaxSubscriptions
    /\ subscriptions' = Append(subscriptions, [once |-> once, called |-> 0])
    /\ subscribers' = Append(subscribers, Len(subscriptions) + 1)
    /\ last' = [op |-> IF once THEN "once" ELSE "on", status |-> 0,
                subscription |-> Len(subscriptions) + 1]
    /\ UNCHANGED <<eventHistory, vscodeRState, registryState, serverState>>

\* Set.prototype.delete
SetDelete(set, members) == SelectSeq(set, LAMBDA m : m \notin members)

\* the function returned by on and once
unsubscribe(subscription) ==
    /\ subscription \in 1..Len(subscriptions)
    /\ subscribers' = SetDelete(subscribers, {subscription})
    /\ last' = [op |-> "unsubscribe", status |-> 0, subscription |-> subscription]
    /\ UNCHANGED <<subscriptions, eventHistory, vscodeRState, registryState, serverState>>

\* the members of the Set
Members == {subscribers[k] : k \in 1..Len(subscribers)}

\* emit(eventType, payload), where the callback of subscription m returns when returns[m] and throws otherwise
emit(payload, returns) ==
    LET toRemove == {m \in Members : returns[m] /\ subscriptions[m].once}
    IN  /\ \A m \in Members : subscriptions[m].called < MaxEmits
        /\ eventHistory' = payload
        /\ subscriptions' = [m \in 1..Len(subscriptions) |->
                                IF m \in Members
                                THEN [subscriptions[m] EXCEPT !.called = @ + 1]
                                ELSE subscriptions[m]]
        /\ subscribers' = SetDelete(subscribers, toRemove)
        /\ last' = [op |-> "emit", status |-> 0, payload |-> payload,
                    called |-> Members, threw |-> {m \in Members : ~returns[m]}]
        /\ UNCHANGED <<vscodeRState, registryState, serverState>>

\* clear(eventType)
clear ==
    /\ subscribers' = <<>>
    /\ last' = [op |-> "clear", status |-> 0]
    /\ UNCHANGED <<subscriptions, eventHistory, vscodeRState, registryState, serverState>>

\* clearAll()
clearAll ==
    /\ subscribers' = <<>>
    /\ eventHistory' = NoPayload
    /\ last' = [op |-> "clearAll", status |-> 0]
    /\ UNCHANGED <<subscriptions, vscodeRState, registryState, serverState>>

NextEventBus ==
    \/ \E once \in BOOLEAN : subscribe(once)
    \/ \E subscription \in 1..MaxSubscriptions : unsubscribe(subscription)
    \/ \E payload \in EventPayloads : \E returns \in [Members -> BOOLEAN] : emit(payload, returns)
    \/ clear
    \/ clearAll

SpecEventBus == InitListening /\ [][NextEventBus]_vars

----------------------------------------------------------------------------
(* The module registry: register, unregister, activate, deactivate and     *)
(* deactivateAll, each async method cut at its await                        *)

MaxRegistrations == 3    \* state objects created in one run
MaxInFlight == 2         \* calls suspended at an await at the same time
MaxOrder == 2            \* entries of activationOrder, those about to be pushed included

\* module.dependencies
dependencies(id) == IF id = "filter" THEN {"viewer"} ELSE {}

NoCaller == [kind |-> "none", rest |-> <<>>]

\* register(module)
register(id) ==
    /\ modules[id] # NotRegistered \/ Len(moduleStates) < MaxRegistrations
    /\ IF modules[id] # NotRegistered
       THEN /\ UNCHANGED <<moduleStates, modules>>
            /\ last' = [op |-> "register", status |-> 0, module |-> id, outcome |-> "already registered"]
       ELSE /\ moduleStates' = Append(moduleStates, [id |-> id, status |-> "registered"])
            /\ modules' = [modules EXCEPT ![id] = Len(moduleStates) + 1]
            /\ last' = [op |-> "register", status |-> 0, module |-> id, outcome |-> "registered"]
    /\ UNCHANGED <<activationOrder, awaiting, vscodeRState, busState, serverState>>

\* activate(moduleId) up to its await: what the call does in the registry (ms, mods)
activateOutcome(ms, mods, id) ==
    IF mods[id] = NotRegistered THEN "throws: not found"
    ELSE IF ms[mods[id]].status = "active" THEN "returns"
    ELSE IF \E depId \in dependencies(id) :
                mods[depId] = NotRegistered \/ ms[mods[depId]].status # "active"
         THEN "throws: dependency not active"
    ELSE "awaits"

\* deactivate(moduleId) up to its await
deactivateOutcome(ms, mods, id) ==
    IF mods[id] = NotRegistered \/ ms[mods[id]].status # "active" THEN "returns"
    ELSE IF \E other \in ModuleIds :
                /\ mods[other] # NotRegistered
                /\ ms[mods[other]].status = "active"
                /\ id \in dependencies(other)
         THEN "throws: a dependent is active"
    ELSE "awaits"

\* the calls suspended in activate
activating == {k \in 1..Len(awaiting) : awaiting[k].fn = "activate"}

\* activate(moduleId), called from outside the registry
activate(id) ==
    LET outcome == activateOutcome(moduleStates, modules, id)
    IN  /\ outcome = "awaits"
           => /\ Len(awaiting) < MaxInFlight
              /\ Len(activationOrder) + Cardinality(activating) < MaxOrder
        /\ IF outcome = "awaits"
           THEN /\ moduleStates' = [moduleStates EXCEPT ![modules[id]].status = "activating"]
                /\ awaiting' = Append(awaiting, [fn |-> "activate", state |-> modules[id],
                                                 then |-> NoCaller])
           ELSE UNCHANGED <<moduleStates, awaiting>>
        /\ last' = [op |-> "activate", status |-> 0, module |-> id, outcome |-> outcome]
        /\ UNCHANGED <<modules, activationOrder, vscodeRState, busState, serverState>>

\* deactivate(moduleId), called from outside the registry
deactivate(id) ==
    LET outcome == deactivateOutcome(moduleStates, modules, id)
    IN  /\ outcome = "awaits" => Len(awaiting) < MaxInFlight
        /\ IF outcome = "awaits"
           THEN /\ moduleStates' = [moduleStates EXCEPT ![modules[id]].status = "deactivating"]
                /\ awaiting' = Append(awaiting, [fn |-> "deactivate", state |-> modules[id],
                                                 then |-> NoCaller])
           ELSE UNCHANGED <<moduleStates, awaiting>>
        /\ last' = [op |-> "deactivate", status |-> 0, module |-> id, outcome |-> outcome]
        /\ UNCHANGED <<modules, activationOrder, vscodeRState, busState, serverState>>

\* unregister(moduleId): an active module is deactivated first and deleted when that is
\* done, a module in any other status is deleted at once
unregister(id) ==
    LET active == modules[id] # NotRegistered /\ moduleStates[modules[id]].status = "active"
        outcome == IF modules[id] = NotRegistered THEN "returns"
                   ELSE IF active THEN deactivateOutcome(moduleStates, modules, id)
                   ELSE "deleted"
    IN  /\ outcome = "awaits" => Len(awaiting) < MaxInFlight
        /\ IF outcome = "awaits"
           THEN /\ moduleStates' = [moduleStates EXCEPT ![modules[id]].status = "deactivating"]
                /\ awaiting' = Append(awaiting, [fn |-> "deactivate", state |-> modules[id],
                                                 then |-> [kind |-> "unregister", rest |-> <<>>]])
           ELSE UNCHANGED <<moduleStates, awaiting>>
        /\ modules' = IF outcome = "deleted" THEN [modules EXCEPT ![id] = NotRegistered]
                      ELSE modules
        /\ last' = [op |-> "unregister", status |-> 0, module |-> id, outcome |-> outcome]
        /\ UNCHANGED <<activationOrder, vscodeRState, busState, serverState>>

\* [...array].reverse()
Reverse(array) == [k \in 1..Len(array) |-> array[Len(array) + 1 - k]]

\* the loop of deactivateAll over the ids still to do: the calls of deactivate that return
\* or throw change nothing and the loop goes on; 0 when no call reaches its await
firstAwaited(ms, mods, ids) ==
    LET awaited == {k \in 1..Len(ids) : deactivateOutcome(ms, mods, ids[k]) = "awaits"}
    IN  IF awaited = {} THEN 0 ELSE CHOOSE k \in awaited : \A other \in awaited : k <= other

\* the loop of deactivateAll from registry (ms, mods, suspended) on
deactivateLoop(ms, mods, suspended, ids) ==
    LET k == firstAwaited(ms, mods, ids)
    IN  IF k = 0
        THEN [moduleStates |-> ms, awaiting |-> suspended, done |-> TRUE]
        ELSE [moduleStates |-> [ms EXCEPT ![mods[ids[k]]].status = "deactivating"],
              awaiting |-> Append(suspended,
                                  [fn |-> "deactivate", state |-> mods[ids[k]],
                                   then |-> [kind |-> "deactivateAll",
                                             rest |-> SubSeq(ids, k + 1, Len(ids))]]),
              done |-> FALSE]

\* deactivateAll()
deactivateAll ==
    LET loop == deactivateLoop(moduleStates, modules, awaiting, Reverse(activationOrder))
    IN  /\ Len(awaiting) < MaxInFlight
        /\ moduleStates' = loop.moduleStates
        /\ awaiting' = loop.awaiting
        /\ last' = [op |-> "deactivateAll", status |-> 0, reverseOrder |-> Reverse(activationOrder),
                    completed |-> IF loop.done THEN "deactivateAll" ELSE "none"]
        /\ UNCHANGED <<modules, activationOrder, vscodeRState, busState, serverState>>

\* array.indexOf(x), counted from 1; 0 when x is not in the array
indexOf(array, x) ==
    LET found == {k \in 1..Len(array) : array[k] = x}
    IN  IF found = {} THEN 0 ELSE CHOOSE k \in found : \A other \in found : k <= other

\* array.splice(k, 1)
splice(array, k) == [j \in 1..(Len(array) - 1) |-> IF j < k THEN array[j] ELSE array[j + 1]]

\* the promise of module.activate() or module.deactivate() that call k waits for settles:
\* the rest of activate or deactivate runs, then the rest of the caller
settle(k, resolved) ==
    /\ k \in 1..Len(awaiting)
    /\ LET call == awaiting[k]
           id == moduleStates[call.state].id
           suspended == splice(awaiting, k)
           ms == [moduleStates EXCEPT ![call.state].status =
                      IF ~resolved THEN "error"
                      ELSE IF call.fn = "activate" THEN "active" ELSE "inactive"]
           order == IF ~resolved THEN activationOrder
                    ELSE IF call.fn = "activate" THEN Append(activationOrder, id)
                    ELSE IF indexOf(activationOrder, id) > 0
                         THEN splice(activationOrder, indexOf(activationOrder, id))
                         ELSE activationOrder
           mods == IF resolved /\ call.then.kind = "unregister"
                   THEN [modules EXCEPT ![id] = NotRegistered]
                   ELSE modules
           loop == IF call.then.kind = "deactivateAll"
                   THEN deactivateLoop(ms, mods, suspended, call.then.rest)
                   ELSE [moduleStates |-> ms, awaiting |-> suspended, done |-> TRUE]
       IN  /\ moduleStates' = loop.moduleStates
           /\ modules' = mods
           /\ activationOrder' = order
           /\ awaiting' = loop.awaiting
           /\ last' = [op |-> "settled", status |-> 0, fn |-> call.fn, module |-> id,
                       resolved |-> resolved,
                       emitted |-> IF ~resolved THEN "none"
                                   ELSE IF call.fn = "activate" THEN "module:activated"
                                   ELSE "module:deactivated",
                       completed |-> IF call.then.kind # "deactivateAll" THEN call.then.kind
                                     ELSE IF loop.done THEN "deactivateAll" ELSE "none"]
    /\ UNCHANGED <<vscodeRState, busState, serverState>>

NextRegistry ==
    \/ \E id \in ModuleIds : register(id)
    \/ \E id \in ModuleIds : unregister(id)
    \/ \E id \in ModuleIds : activate(id)
    \/ \E id \in ModuleIds : deactivate(id)
    \/ deactivateAll
    \/ \E k \in 1..MaxInFlight : \E resolved \in BOOLEAN : settle(k, resolved)

SpecRegistry == InitListening /\ [][NextRegistry]_vars

----------------------------------------------------------------------------
(* Properties *)

\* the n-th accepted request still has an entry in the pending map
InPending(n) == \E k \in 1..Len(pendingRequests) : pendingRequests[k].promise = n

(* C1: for every issued request, under every interleaving of its timeout   *)
(* with POST /respond requests for its id, the resolve/reject continuation *)
(* of the request is invoked at most once in total.                        *)
C1_ContinuationInvokedAtMostOnce ==
    \A n \in 1..requestCounter : calls[n] <= 1

(* C2: a POST /respond/{id} whose id is no longer pending by the time its  *)
(* body has been received is answered 404, invokes no continuation and     *)
(* leaves the pending map and the session unchanged.                       *)
C2_LateReplyIsNotFound ==
    [][ (last'.op = "POST /respond" /\ ~MapHas(pendingRequests, last'.id))
        => /\ last'.status = 404
           /\ calls' = calls
           /\ promises' = promises
           /\ pendingRequests' = pendingRequests
           /\ rSession' = rSession ]_vars

(* C3: between callbacks, a request is in the pending map if and only if   *)
(* its future is still unsettled.                                          *)
C3_PendingIffUnsettled ==
    \A n \in 1..requestCounter : InPending(n) <=> promises[n].state = "pending"

(* C4: issuing a pull request while isAttached() is false fails at once    *)
(* with the not-connected error, adds no pending entry, starts no timer    *)
(* and consumes no request id.                                             *)
C4_IssueWhileDetachedFails ==
    [][ (last'.op \in {"requestDataFramesList", "requestDataFrame"}
           /\ (rSession = NoSession \/ now - rSession.lastHeartbeat >= timeout))
        => /\ last'.threw
           /\ last'.message = NotConnectedMessage
           /\ pendingRequests' = pendingRequests
           /\ timers' = timers
           /\ requestCounter' = requestCounter
           /\ promises' = promises ]_vars

\* an issue was refused although a session exists (it is stale) and a request is still pending
C4_Witness ==
    /\ last.op = "requestDataFrame"
    /\ last.threw
    /\ rSession # NoSession
    /\ Len(pendingRequests) > 0

\* the entry of the pending map that was issued first
FirstIssued ==
    pendingRequests[CHOOSE k \in 1..Len(pendingRequests) :
                        \A j \in 1..Len(pendingRequests) :
                            pendingRequests[k].promise <= pendingRequests[j].promise]

(* C5: GET /pending returns the pending request that was issued first, for *)
(* as long as that request is pending, and {id: null} when the pending map *)
(* is empty.                                                               *)
C5_PollReturnsFirstIssued ==
    last.op = "GET /pending"
    => IF pendingRequests = <<>>
       THEN last.body.id = NoId
       ELSE /\ last.body.id = FirstIssued.id
            /\ last.body.type = FirstIssued.type

\* a poll answered with the first of two pending requests created in the same millisecond
C5_Witness ==
    /\ last.op = "GET /pending"
    /\ Len(pendingRequests) = 2
    /\ pendingRequests[1].createdAt = pendingRequests[2].createdAt
    /\ last.body.id = pendingRequests[1].id

(* C6: when the timeout elapses for a request that is still in the pending *)
(* map, the entry is removed and the future is rejected with a timeout     *)
(* error.                                                                  *)
C6_TimeoutRejectsWithTimeoutError ==
    [][ (last'.op = "timeout" /\ MapHas(pendingRequests, last'.id))
        => /\ ~MapHas(pendingRequests', last'.id)
           /\ promises'[last'.id[1]] = Rejected("Request timeout") ]_vars

\* routes that are neither a reply nor a timeout
OtherRoutes ==
    {"GET /pending", "POST /register", "POST /heartbeat", "POST /review",
     "GET /health", "GET /status", "OPTIONS", "unknown route"}

(* C7: a pending entry is removed only by a POST /respond for its own id   *)
(* or by its own timeout; polls, registrations, heartbeats, pushes and the *)
(* other routes leave the pending entries unchanged, and no step changes   *)
(* an entry that stays.                                                    *)
C7_OnlyReplyOrTimeoutRemoves ==
    [][ /\ last'.op \in OtherRoutes => pendingRequests' = pendingRequests
        /\ \A k \in 1..Len(pendingRequests) :
             LET entry == pendingRequests[k]
             IN  IF MapHas(pendingRequests', entry.id)
                 THEN MapGet(pendingRequests', entry.id) = entry
                 ELSE /\ last'.op \in {"POST /respond", "timeout"}
                      /\ last'.id = entry.id ]_vars

\* a re-registration and a poll each handled while two requests are pending
C7_Witness ==
    /\ Len(pendingRequests) = 2
    /\ \/ last.op = "POST /register" /\ last.status = 200 /\ ~last.connectedFired
       \/ last.op = "GET /pending"

(* C8: when the peer answers a request of the pending map with a body      *)
(* carrying an error field, the future is rejected with exactly that       *)
(* message, the entry is removed (the pending count drops by one) and the  *)
(* peer receives status ok.                                                *)
C8_ErrorReplyRejectsWithItsMessage ==
    [][ (/\ last'.op = "POST /respond"
         /\ MapHas(pendingRequests, last'.id)
         /\ last'.request.parses
         /\ Has(last'.request.response, "error"))
        => /\ promises'[last'.id[1]] = Rejected(last'.request.response.error)
           /\ ~MapHas(pendingRequests', last'.id)
           /\ Len(pendingRequests') = Len(pendingRequests) - 1
           /\ last'.status = 200
           /\ last'.body = [status |-> "ok"] ]_vars

(* C9: after a successful reply, the future of a listDataFrames request is *)
(* fulfilled with the reply's data unchanged and the future of a getData   *)
(* request with the snapshot convertToDataFrame makes of the reply's data. *)
C9_ReplyFulfilsAccordingToKind ==
    [][ (/\ last'.op = "POST /respond"
         /\ last'.status = 200
         /\ ~Has(last'.request.response, "error"))
        => promises'[last'.id[1]] =
             Fulfilled(IF last'.type = "listDataFrames"
                       THEN dataOf(last'.request.response)
                       ELSE convertToDataFrame(dataOf(last'.request.response), now).value) ]_vars

C11_ConnectedFiresIffDetachedBefore ==
    [][ (last'.op = "POST /register" /\ last'.status = 200)
        => (last'.connectedFired <=>
              (\/ rSession = NoSession
               \/ now - rSession.lastHeartbeat >= timeout)) ]_vars

\* a registration that fired 'connected' over a session that had timed out:
\* pull requests were accepted earlier, so a session had been registered
C11_Witness ==
    /\ last.op = "POST /register"
    /\ last.status = 200
    /\ last.connectedFired
    /\ requestCounter > 0
    /\ now >= timeout

(* C12: POST /heartbeat while no session was ever registered is answered  *)
(* 400 'Not registered' and creates no session, so the session stays       *)
(* detached; while a session exists, attached or timed out, it is answered  *)
(* 200 ok and sets lastHeartbeat to the current time, leaving every other   *)
(* field of the session as it was.                                          *)
C12_HeartbeatNeedsSessionAndOnlyRefreshes ==
    [][ last'.op = "POST /heartbeat"
        => IF rSession = NoSession
           THEN /\ last'.status = 400
                /\ last'.body = [error |-> "Not registered"]
                /\ rSession' = NoSession
                /\ ~isRSessionConnected'
           ELSE /\ last'.status = 200
                /\ last'.body = [status |-> "ok"]
                /\ rSession' = [rSession EXCEPT !.lastHeartbeat = now] ]_vars

\* a heartbeat accepted for a session registered at least a liveness timeout ago
C12_Witness ==
    /\ last.op = "POST /heartbeat"
    /\ last.status = 200
    /\ rSession.lastHeartbeat = now
    /\ now - rSession.registeredAt >= timeout

\* a pull request was accepted by this step
Accepted(op) == last'.op = op /\ ~last'.threw /\ requestCounter' = requestCounter + 1

(* C14: a heartbeat or a poll handled while a session exists sets          *)
(* lastHeartbeat to the current time, and no step ever moves lastHeartbeat *)
(* back; so the session is attached right after each poll and for less     *)
(* than the liveness timeout from then on, and a pull request issued while *)
(* now - lastHeartbeat is below the timeout is accepted.                   *)
C14_HeartbeatAndPollExtendLiveness ==
    [][ /\ (last'.op \in {"POST /heartbeat", "GET /pending"} /\ rSession # NoSession)
           => (rSession'.lastHeartbeat = now /\ isRSessionConnected')
        /\ (rSession # NoSession /\ rSession' # NoSession)
           => rSession'.lastHeartbeat >= rSession.lastHeartbeat
        /\ (rSession # NoSession /\ now - rSession.lastHeartbeat < timeout)
           => /\ last'.op = "requestDataFramesList" => Accepted("requestDataFramesList")
              /\ last'.op = "requestDataFrame" => Accepted("requestDataFrame") ]_vars

\* a pull request accepted for a session registered at least a liveness timeout
\* ago and refreshed since
C14_Witness ==
    /\ last.op = "requestDataFrame"
    /\ ~last.threw
    /\ rSession # NoSession
    /\ now - rSession.registeredAt >= timeout
    /\ now - rSession.lastHeartbeat < timeout

\* the callbacks given to setOnRSessionStatusChange that the latest step invoked
connectedFired == Has(last, "connectedFired") /\ last.connectedFired
disconnectedFired == Has(last, "disconnectedFired") /\ last.disconnectedFired

(* C15: the only step that invokes a session callback is a registration:  *)
(* no step invokes the 'disconnected' callback, and a step that invokes    *)
(* the 'connected' callback is a successful POST /register; time passing   *)
(* the liveness timeout, a heartbeat and a poll invoke neither.            *)
C15_OnlyRegistrationNotifies ==
    /\ ~disconnectedFired
    /\ connectedFired => (last.op = "POST /register" /\ last.status = 200)

\* time has just passed the liveness timeout of a registered session, silently
C15_Witness ==
    /\ last.op = "tick"
    /\ rSession # NoSession
    /\ now - rSession.lastHeartbeat >= timeout
    /\ ~connectedFired

(* C16: when the response to a state-changing request has been written,    *)
(* its effect is in the state every later request starts from: after a     *)
(* 200 to POST /register the session is the one of this request, after a   *)
(* 200 to POST /heartbeat lastHeartbeat is the current time, after a 200   *)
(* to POST /respond the entry is out of the map, after a 200 or 400 to    *)
(* POST /respond the future is settled, after a 200 to POST /review the    *)
(* sink has been called with the snapshot.                                 *)
C16_EffectBeforeResponse ==
    /\ (last.op = "POST /register" /\ last.status = 200)
       => /\ rSession # NoSession
          /\ rSession.registeredAt = now
          /\ rSession.pid = last.request.data.pid
    /\ (last.op = "POST /heartbeat" /\ last.status = 200)
       => (rSession # NoSession /\ rSession.lastHeartbeat = now)
    /\ (last.op = "POST /respond" /\ last.status = 200)
       => ~MapHas(pendingRequests, last.id)
    /\ (last.op = "POST /respond" /\ last.status \in {200, 400})
       => promises[last.id[1]].state # "pending"
    /\ (last.op = "POST /review" /\ last.status = 200)
       => (last.delivered /\ last.dataFrame.name = last.request.rData.name)

\* a reply answered 200 while another POST /respond connection is still open
C16_Witness ==
    /\ last.op = "POST /respond"
    /\ last.status = 200
    /\ BagCardinality(responding) > 0

\* what GET /health and GET /status report as isRSessionConnected()
reported(l) == IF l.op = "GET /health" THEN l.body.rSessionConnected ELSE l.body.connected

(* C13 as stated: the liveness test is false without a session or when    *)
(* now - lastHeartbeat exceeds 60 seconds, and true for every session      *)
(* whose now - lastHeartbeat does not exceed 60 seconds; evaluating it     *)
(* changes no state.                                                       *)
C13_AttachedUpToTimeout ==
    [][ last'.op \in {"GET /health", "GET /status"}
        => /\ reported(last') <=> (/\ rSession # NoSession
                                    /\ now - rSession.lastHeartbeat <= timeout)
           /\ UNCHANGED frame ]_vars

(* C13, amended: the liveness test is false without a session or when     *)
(* now - lastHeartbeat is at least 60 seconds, and true for every session  *)
(* whose now - lastHeartbeat is below 60 seconds (false at 61 s and at     *)
(* exactly 60 s, true at 59 s); evaluating it changes no state.            *)
C13_AttachedBelowTimeout ==
    [][ last'.op \in {"GET /health", "GET /status"}
        => /\ reported(last') <=> (/\ rSession # NoSession
                                    /\ now - rSession.lastHeartbeat < timeout)
           /\ UNCHANGED frame ]_vars

\* the test evaluated for a session whose last heartbeat is exactly 60 seconds old
C13_Witness ==
    /\ last.op = "GET /health"
    /\ rSession # NoSession
    /\ now - rSession.lastHeartbeat = timeout
    /\ ~last.body.rSessionConnected

\* the failure of the 'end' callback of POST /review on this body, "" when it has none
reviewFailure(body, t) ==
    IF ~body.parses THEN SyntaxErrorMessage
    ELSE IF \/ ~Has(body.rData, "name") \/ body.rData.name = ""
            \/ ~Has(body.rData, "data")
         THEN "Invalid data format: missing name or data"
         ELSE IF convertToDataFrame(body.rData, t).threw
              THEN convertToDataFrame(body.rData, t).message
              ELSE ""

\* name absent, data absent, or colnames.length differs from ncol
defective(rData) ==
    \/ ~Has(rData, "name")
    \/ ~Has(rData, "data")
    \/ ~Has(rData, "colnames")
    \/ Len(rData.colnames) # rData.ncol

(* C17: a POST /review whose body is not valid JSON, or whose payload has *)
(* one of the defects the Normalizer is to reject, is answered once, with  *)
(* 400 and an error message; the sink and the event bus get nothing, and   *)
(* the server is still listening afterwards.                               *)
C17_InvalidPushAnswered400 ==
    (/\ last.op = "POST /review"
     /\ (~last.request.parses \/ defective(last.request.rData)))
    => /\ last.status = 400
       /\ last.body.status = "error"
       /\ ~last.delivered
       /\ ~last.emitted
       /\ reviewing.state = "done"
       /\ reviewing.responses = 1
       /\ server = "listening"

(* C17, for the bodies the handler does refuse (JSON.parse throws, name   *)
(* or data is missing, the conversion throws): one response, 400, whose    *)
(* message is that of the failure; nothing is emitted or delivered.        *)
C17_RefusedPushAnswered400 ==
    (last.op = "POST /review" /\ reviewFailure(last.request, now) # "")
    => /\ last.status = 400
       /\ last.body = [status |-> "error", message |-> reviewFailure(last.request, now)]
       /\ ~last.delivered
       /\ ~last.emitted
       /\ reviewing.state = "done"
       /\ reviewing.responses = 1
       /\ server = "listening"

(* C18: a pushed payload whose name is absent, whose data is absent, or   *)
(* whose colnames.length differs from ncol is rejected: the response is    *)
(* 400, no snapshot is produced and the sink is not called.                *)
C18_DefectivePayloadRejected ==
    (last.op = "POST /review" /\ last.request.parses /\ defective(last.request.rData))
    => /\ last.status = 400
       /\ ~last.delivered
       /\ ~Has(last, "dataFrame")

(* C19: the chunk that takes the accumulated size of a POST /review body  *)
(* above 100 MiB is answered 413 and the request is destroyed: nothing is  *)
(* emitted or delivered, the request gets no further event, so its body is *)
(* never parsed and it has exactly one response.                           *)
C19_OversizedPushAnswered413 ==
    [][ reviewing'.bodySize > maxBodySize
        => /\ reviewing'.state = "destroyed"
           /\ reviewing'.responses = 1
           /\ reviewing.bodySize <= maxBodySize
              => /\ last'.op = "POST /review (data)"
                 /\ last'.status = 413
                 /\ ~last'.delivered
                 /\ ~last'.emitted ]_vars

\* a body that passed the cap with its third chunk
C19_Witness ==
    /\ reviewing.state = "destroyed"
    /\ reviewing.chunks = MaxChunks
    /\ reviewing.bodySize > maxBodySize
    /\ last.status = 413

(* C20: start() calls listen again at most once, on the port after the   *)
(* configured one; a listening server is bound to the port getPort()       *)
(* returns, which is the configured port or the one after it, and that     *)
(* port does not change while the server listens.                          *)
C20_OneRetryOnNextPort ==
    [][ /\ server' = "binding" => retries' <= 1
        /\ server' = "listening"
           => /\ boundPort' = {port'}
              /\ port' \in {ConfiguredPort, ConfiguredPort + 1}
              /\ retries' <= 1
        /\ (server = "listening" /\ server' = "listening") => port' = port
        /\ last'.op = "getPort" => last'.value = port ]_vars

(* C21: when the configured port and the one after it are both occupied,  *)
(* start() tries no further port and its promise is not resolved: after    *)
(* the second EADDRINUSE the promise is rejected.                          *)
C21_BothOccupiedRejects ==
    ({ConfiguredPort, ConfiguredPort + 1} \subseteq occupied)
    => /\ port <= ConfiguredPort + 1
       /\ startPromise # "resolved"
       /\ retries >= 2 => startPromise = "rejected"

\* the most recent callback handed a snapshot to the consumer: a push answered 200, or a getData reply that resolved its request
snapshotProduced ==
    \/ last.op = "POST /review" /\ last.status = 200
    \/ last.op = "POST /respond" /\ last.status = 200 /\ last.called = "resolve" /\ last.type = "getData"

\* that snapshot
snapshot == IF last.op = "POST /review" THEN last.dataFrame ELSE last.value

(* C22: for every payload the normalizer accepts, the snapshot has at most *)
(* nrow rows (nrow being its total row count), every row has exactly ncol  *)
(* cells and exactly as many cells as there are columns, the columns being *)
(* numbered in their order, and the snapshot is not marked truncated.      *)
C22_RowsMatchDeclaredShape ==
    snapshotProduced =>
        /\ Len(snapshot.rows) <= peerData.nrow
        /\ snapshot.totalRows = peerData.nrow
        /\ \A i \in 1..Len(snapshot.rows) :
               /\ Len(snapshot.rows[i]) = peerData.ncol
               /\ Len(snapshot.rows[i]) = Len(snapshot.columns)
        /\ \A j \in 1..Len(snapshot.columns) : snapshot.columns[j].index = j - 1
        /\ snapshot.hasMore = FALSE

(* C23: no cell of a snapshot, on the push path or the pull path, is the   *)
(* string "NA": an input value that is JSON null or the string "NA"        *)
(* becomes null in its cell, whatever the column and its type, and every   *)
(* other input value is the cell unchanged.                                *)
C23_NoCellIsNA ==
    snapshotProduced =>
        \A i \in 1..Len(snapshot.rows) : \A j \in 1..Len(snapshot.rows[i]) :
            LET cell    == snapshot.rows[i][j]
                colName == peerData.colnames[j]
            IN  /\ cell # Str("NA")
                /\ (colName \in DOMAIN peerData.data /\ i <= Len(peerData.data[colName]))
                   => LET value == peerData.data[colName][i]
                      IN  IF value = JsNull \/ value = Str("NA")
                          THEN cell = JsNull
                          ELSE cell = value

\* a getData reply whose first column is ["NA", "na"]: the first cell is null, the second is the string "na"
C23_Witness ==
    /\ snapshotProduced
    /\ last.op = "POST /respond"
    /\ peerData.nrow = 2
    /\ peerData.data["a"] = <<Str("NA"), Str("na")>>
    /\ snapshot.rows[1][1] = JsNull
    /\ snapshot.rows[2][1] = Str("na")

(* C24: for every column of an accepted payload, hasNA is true if and only *)
(* if at least one value of the column's input array is JSON null or the   *)
(* string "NA"; a column that is absent from data has hasNA false.         *)
C24_HasNAIffMissingValueInInput ==
    snapshotProduced =>
        \A j \in 1..Len(snapshot.columns) :
            LET colName == peerData.colnames[j]
            IN  snapshot.columns[j].hasNA
                <=> /\ colName \in DOMAIN peerData.data
                    /\ \E k \in 1..Len(peerData.data[colName]) :
                           peerData.data[colName][k] \in {JsNull, Str("NA")}

\* a push whose first column has its only missing value after the last row and whose second column is absent from data
C24_Witness ==
    /\ snapshotProduced
    /\ last.op = "POST /review"
    /\ peerData.nrow = 1
    /\ peerData.data["a"] = <<Num(1), Str("NA")>>
    /\ "b" \notin DOMAIN peerData.data
    /\ snapshot.columns[1].hasNA
    /\ ~snapshot.columns[2].hasNA

(* C25: for an accepted payload the snapshot has exactly nrow rows, its    *)
(* columns are those of colnames in that order, each with index equal to   *)
(* its position, and cell j of row i is the normalized i-th element of     *)
(* data[colnames[j]], or null when that array is shorter or absent; a      *)
(* column array whose length differs from nrow is accepted all the same.   *)
C25_RowsProjectedFromColumns ==
    /\ (last.op \in {"POST /review", "POST /respond"} /\ peerData.ncol = Len(peerData.colnames))
       => snapshotProduced
    /\ snapshotProduced =>
        /\ Len(snapshot.rows) = peerData.nrow
        /\ Len(snapshot.columns) = Len(peerData.colnames)
        /\ \A j \in 1..Len(peerData.colnames) :
               /\ snapshot.columns[j].name = peerData.colnames[j]
               /\ snapshot.columns[j].index = j - 1
        /\ \A i \in 1..peerData.nrow :
               /\ Len(snapshot.rows[i]) = Len(peerData.colnames)
               /\ \A j \in 1..Len(peerData.colnames) :
                      LET colName == peerData.colnames[j]
                      IN  snapshot.rows[i][j] =
                              IF colName \in DOMAIN peerData.data /\ i <= Len(peerData.data[colName])
                              THEN (IF peerData.data[colName][i] \in {JsNull, Str("NA")}
                                    THEN JsNull ELSE peerData.data[colName][i])
                              ELSE JsNull

\* a push with nrow 3, a first column of two values and a second column of one: rows [1, "na"], [1, null], [null, null]
C25_Witness ==
    /\ snapshotProduced
    /\ last.op = "POST /review"
    /\ peerData.nrow = 3
    /\ peerData.data = [c \in {"a", "b"} |-> IF c = "a" THEN <<Num(1), Num(1)>> ELSE <<Str("na")>>]
    /\ snapshot.rows = << <<Num(1), Str("na")>>, <<Num(1), JsNull>>, <<JsNull, JsNull>> >>

\* the keys of the type table in the order the claim gives them
C26_KeyOrder ==
    << <<"n","u","m","e","r","i","c">>, <<"d","o","u","b","l","e">>, <<"i","n","t","e","g","e","r">>,
       <<"c","h","a","r","a","c","t","e","r">>, <<"f","a","c","t","o","r">>, <<"l","o","g","i","c","a","l">>,
       <<"d","a","t","e">>, <<"p","o","s","i","x","c","t">>, <<"p","o","s","i","x","t">>,
       <<"p","o","s","i","x","l","t">>, <<"c","o","m","p","l","e","x">>, <<"r","a","w">>,
       <<"l","i","s","t">> >>

\* the raw type tag the payload carries for its j-th column, <<>> when it carries none or an empty one
rawTag(j) ==
    LET ct == peerData.coltypes
    IN  IF ct.kind = "array"
        THEN (IF j <= Len(ct.items) THEN ct.items[j] ELSE <<>>)
        ELSE (IF peerData.colnames[j] \in DOMAIN ct.map THEN ct.map[peerData.colnames[j]] ELSE <<>>)

(* C26: the type of a column is found by lower-casing its raw type tag,    *)
(* removing the quote characters and taking the type of the first entry of *)
(* the table, whose keys are in the order numeric, double, integer,        *)
(* character, factor, logical, date, posixct, posixt, posixlt, complex,    *)
(* raw, list, whose key occurs in the tag as a substring; a tag that       *)
(* contains no key and a missing tag give unknown.                         *)
C26_FirstTableEntryInTagDecides ==
    /\ Len(typeMap) = Len(C26_KeyOrder)
    /\ \A k \in 1..Len(C26_KeyOrder) : typeMap[k].key = C26_KeyOrder[k]
    /\ snapshotProduced =>
        \A j \in 1..Len(snapshot.columns) :
            LET tag  == stripQuotes(toLowerCase(rawTag(j)))
                hits == {k \in 1..Len(C26_KeyOrder) :
                            \E i \in 1..Len(tag) :
                                /\ i + Len(C26_KeyOrder[k]) - 1 <= Len(tag)
                                /\ \A d \in 1..Len(C26_KeyOrder[k]) : tag[i + d - 1] = C26_KeyOrder[k][d]}
            IN  snapshot.columns[j].type =
                    IF hits = {} THEN "unknown"
                    ELSE typeMap[CHOOSE k \in hits : \A h \in hits : k <= h].value

\* a push with the tags "POSIXlt POSIXt" and "numeric_list": posixt precedes posixlt and numeric precedes list
C26_Witness ==
    /\ snapshotProduced
    /\ last.op = "POST /review"
    /\ peerData.coltypes.kind = "array"
    /\ peerData.coltypes.items = << <<"P","O","S","I","X","l","t"," ","P","O","S","I","X","t">>,
                                    <<"n","u","m","e","r","i","c","_","l","i","s","t">> >>
    /\ snapshot.columns[1].type = "POSIXct"
    /\ snapshot.columns[2].type = "numeric"

\* the tags of the payload can be given per column name: columns of the same name carry the same tag
tagsByName ==
    \A j \in 1..Len(peerData.colnames) : \A k \in 1..Len(peerData.colnames) :
        peerData.colnames[j] = peerData.colnames[k] => rawTag(j) = rawTag(k)

\* the payload with the same tags in the other form of coltypes: an array made a mapping, a mapping made an array
otherForm ==
    LET names == {peerData.colnames[j] : j \in 1..Len(peerData.colnames)}
        first(c) == CHOOSE j \in 1..Len(peerData.colnames) : peerData.colnames[j] = c
    IN  IF peerData.coltypes.kind = "array"
        THEN [peerData EXCEPT !.coltypes =
                 [kind |-> "object",
                  map  |-> [c \in {n \in names : rawTag(first(n)) # <<>>} |-> rawTag(first(c))]]]
        ELSE [peerData EXCEPT !.coltypes =
                 [kind  |-> "array",
                  items |-> [j \in 1..Len(peerData.colnames) |-> rawTag(j)]]]

(* C27: the types do not depend on the form of coltypes: for a payload     *)
(* whose tags can be given per column name, the array aligned with         *)
(* colnames and the mapping from column name to tag give every column the  *)
(* same type.                                                              *)
C27_TypeIndependentOfColtypesForm ==
    (snapshotProduced /\ tagsByName) =>
        LET other == convertToDataFrame(otherForm, now)
        IN  /\ otherForm.coltypes.kind # peerData.coltypes.kind
            /\ ~other.threw
            /\ \A j \in 1..Len(snapshot.columns) :
                   snapshot.columns[j].type = other.value.columns[j].type

\* a push with coltypes {a: "DOUBLE", b: "r'aw"}: the types are numeric and raw, as with ["DOUBLE", "r'aw"]
C27_Witness ==
    /\ snapshotProduced
    /\ last.op = "POST /review"
    /\ peerData.colnames = <<"a", "b">>
    /\ peerData.coltypes.kind = "object"
    /\ DOMAIN peerData.coltypes.map = {"a", "b"}
    /\ peerData.coltypes.map["a"] = <<"D","O","U","B","L","E">>
    /\ peerData.coltypes.map["b"] = <<"r","'","a","w">>
    /\ otherForm.coltypes = [kind |-> "array", items |-> << <<"D","O","U","B","L","E">>, <<"r","'","a","w">> >>]
    /\ snapshot.columns[1].type = "numeric"
    /\ snapshot.columns[2].type = "raw"

(* C28: request ids are unique: the id an accepted issue gives its request *)
(* carries the incremented request counter, which no earlier id carries,   *)
(* so it is the id of no pending entry and of no armed timer, also when    *)
(* other requests were issued at the same instant or have been retired,    *)
(* and the issue adds an entry to the pending map instead of overwriting.  *)
C28_RequestIdsUnique ==
    [][ (Accepted("requestDataFramesList") \/ Accepted("requestDataFrame"))
        => LET id == last'.id
           IN  /\ id[1] = requestCounter + 1
               /\ \A k \in 1..Len(pendingRequests) :
                      pendingRequests[k].id # id /\ pendingRequests[k].id[1] <= requestCounter
               /\ \A timer \in timers : timer.id # id /\ timer.id[1] <= requestCounter
               /\ Len(pendingRequests') = Len(pendingRequests) + 1
               /\ \A k \in 1..Len(pendingRequests) : pendingRequests'[k] = pendingRequests[k]
               /\ pendingRequests'[Len(pendingRequests')].id = id ]_vars

\* two requests issued at the same instant are both pending, under different ids
C28_Witness ==
    /\ last.op \in {"requestDataFramesList", "requestDataFrame"}
    /\ ~last.threw
    /\ Len(pendingRequests) = 2
    /\ pendingRequests[1].createdAt = pendingRequests[2].createdAt
    /\ pendingRequests[1].id # pendingRequests[2].id
    /\ pendingRequests[2].id = last.id

(* C29: requests pending at the same time are settled independently: a     *)
(* POST /respond for the id A, whatever its body, and the timeout of A     *)
(* leave every other pending request B where it is in the pending map,     *)
(* with its entry, its future, its continuations and its timer untouched;  *)
(* B is resolved or timed out by its own reply or timer afterwards.        *)
C29_OtherPendingRequestsUntouched ==
    [][ last'.op \in {"POST /respond", "POST /respond (body pending)", "timeout"}
        => /\ \A k \in 1..Len(pendingRequests) :
                  LET B == pendingRequests[k]
                  IN  B.id # last'.id
                      => /\ \E h \in 1..Len(pendingRequests') : pendingRequests'[h] = B
                         /\ promises'[B.promise] = promises[B.promise]
                         /\ calls'[B.promise] = calls[B.promise]
                         /\ \A timer \in timers : timer.id = B.id => timer \in timers'
           /\ \A k \in 1..Len(pendingRequests) : \A h \in 1..Len(pendingRequests) :
                  (k < h /\ pendingRequests[k].id # last'.id /\ pendingRequests[h].id # last'.id)
                  => \E x \in 1..Len(pendingRequests') : \E y \in 1..Len(pendingRequests') :
                         /\ x < y
                         /\ pendingRequests'[x] = pendingRequests[k]
                         /\ pendingRequests'[y] = pendingRequests[h] ]_vars

\* the second request is resolved by its reply after the first one, issued at the same instant, timed out
C29_Witness ==
    /\ requestCounter = 2
    /\ last.op = "POST /respond"
    /\ last.status = 200
    /\ last.called = "resolve"
    /\ last.id[1] = 2
    /\ promises[1] = Rejected("Request timeout")
    /\ promises[2].state = "fulfilled"
    /\ calls = <<1, 1>>
    /\ pendingRequests = <<>>

(* C30: for a valid push, an exception thrown by the sink or by a          *)
(* subscriber of 'data:loaded' does not change how the push is handled:    *)
(* the push is answered with the success response, the event having been   *)
(* emitted, and the relay's state is what it was.                          *)
C30_ThrowingConsumerKeepsSuccess ==
    [][ (last'.op = "POST /review" /\ last'.request = [parses |-> TRUE, rData |-> mtcars])
        => /\ last'.status = 200
           /\ last'.body.status = "success"
           /\ last'.emitted
           /\ UNCHANGED <<frame, reviewing, listener>> ]_vars

\* the part of C30 about subscribers: what a subscriber of 'data:loaded' throws stays inside eventBus.emit
C30_ThrowingSubscriberKeepsSuccess ==
    [][ (/\ last'.op = "POST /review"
         /\ last'.request = [parses |-> TRUE, rData |-> mtcars]
         /\ last'.sink # "throws")
        => /\ last'.status = 200
           /\ last'.body.status = "success"
           /\ last'.emitted
           /\ last'.delivered <=> last'.sink = "returns"
           /\ UNCHANGED <<frame, reviewing, listener>> ]_vars

(* C31: the push path is independent of the session and of the pending     *)
(* requests: a POST /review is answered by its body alone, whether or not   *)
(* a session is registered or attached, creates no session, does not move   *)
(* lastHeartbeat, and leaves the pending map, every promise, its            *)
(* continuation calls and every timer untouched, in any interleaving with   *)
(* outstanding pull requests.                                               *)
C31_PushLeavesSessionAndPendingUntouched ==
    [][ last'.op = "POST /review"
        => /\ rSession' = rSession
           /\ pendingRequests' = pendingRequests
           /\ promises' = promises
           /\ calls' = calls
           /\ timers' = timers
           /\ responding' = responding
           /\ requestCounter' = requestCounter
           /\ IF last'.request = [parses |-> TRUE, rData |-> mtcars]
              THEN /\ last'.status = 200
                   /\ last'.emitted /\ last'.delivered
                   /\ last'.dataFrame.name = "mtcars"
              ELSE /\ last'.status = 400
                   /\ ~last'.emitted /\ ~last'.delivered ]_vars

\* a valid push accepted while a pull request is outstanding and the session that it was issued to has gone silent
C31_Witness ==
    /\ last.op = "POST /review"
    /\ last.status = 200
    /\ Len(pendingRequests) >= 1
    /\ \E n \in 1..requestCounter : promises[n].state = "pending"
    /\ rSession # NoSession
    /\ ~isRSessionConnected

(* C32: the pull path validates as the push path is to: a payload without  *)
(* name, without data, or whose colnames.length differs from ncol, sent as *)
(* the data of a getData reply, has the request's promise rejected and     *)
(* never fulfilled with a snapshot.                                        *)
C32_PullRejectsDefectivePayload ==
    (/\ last.op = "POST /respond"
     /\ last.status # 404
     /\ last.type = "getData"
     /\ defective(peerData))
    => /\ last.called = "reject"
       /\ \A n \in 1..requestCounter : promises[n].state # "fulfilled"

(* C33: when two pending requests have the same creation time, GET         *)
(* /pending returns the one that was issued first, and returns it again on *)
(* every poll for as long as it is pending: a poll leaves the pending map  *)
(* as it is, so the choice never passes to the other request.              *)
C33_TiedRequestsPolledInIssueOrder ==
    [][ (/\ last'.op = "GET /pending"
         /\ \E k \in 1..Len(pendingRequests) : \E h \in 1..Len(pendingRequests) :
                k # h /\ pendingRequests[k].createdAt = pendingRequests[h].createdAt)
        => /\ pendingRequests' = pendingRequests
           /\ \E k \in 1..Len(pendingRequests) :
                  /\ last'.body.id = pendingRequests[k].id
                  /\ \A h \in 1..Len(pendingRequests) :
                         h # k => /\ pendingRequests[k].createdAt <= pendingRequests[h].createdAt
                                  /\ pendingRequests[k].promise < pendingRequests[h].promise
           /\ (last.op = "GET /pending" /\ MapHas(pendingRequests, last.body.id))
              => last'.body.id = last.body.id ]_vars

\* a poll made some time after two requests were issued at the same instant returns the first of them
C33_Witness ==
    /\ last.op = "GET /pending"
    /\ Len(pendingRequests) = 2
    /\ pendingRequests[1].createdAt = pendingRequests[2].createdAt
    /\ pendingRequests[1].promise = 1
    /\ now > pendingRequests[1].createdAt
    /\ last.body.id = pendingRequests[1].id

(* C34: in every snapshot the hasNA flag of a column agrees with the rows:  *)
(* it is true exactly when at least one row holds null in that column,     *)
(* also when the column's input array is shorter or longer than nrow.      *)
C34_HasNAAgreesWithRows ==
    snapshotProduced =>
        \A j \in 1..Len(snapshot.columns) :
            snapshot.columns[j].hasNA
            <=> \E i \in 1..Len(snapshot.rows) : snapshot.rows[i][j] = JsNull

(* C35: when vscode-r was not found at activation and is installed later,  *)
(* the command 'View Data Frame' detects it: its call of initialize()      *)
(* looks the extension up again, so that vscodeRAvailable becomes true     *)
(* and the command takes the vscode-r strategy (once vscode-r has been     *)
(* activated, where it was not active yet).                                *)
C35_CommandDetectsLaterInstall ==
    [][ (/\ last'.op = "reviewer.viewDataFrame"
         /\ extension.initializeVscodeR = "called"
         /\ ~extension.vscodeRAvailable
         /\ vscodeRConnection.rExtension = undefined
         /\ getExtension # undefined)
        => /\ vscodeRConnection'.rExtension = getExtension
           /\ \/ vscodeRConnection'.initializationPromise.state = "pending"
              \/ /\ extension'.vscodeRAvailable
                 /\ last'.strategy = "vscode-r" ]_vars

(* C36: the callback of a subscription made with once() is invoked at most *)
(* one time over any sequence of emits: the subscription leaves the set    *)
(* after its first call, whether that call returned or threw.              *)
C36_OnceCalledAtMostOnce ==
    \A m \in 1..Len(subscriptions) :
        subscriptions[m].once
        => /\ subscriptions[m].called <= 1
           /\ subscriptions[m].called = 1 => m \notin Members

\* the status of module id in the registry, "none" when it is not registered
statusOf(id) == IF modules[id] = NotRegistered THEN "none" ELSE moduleStates[modules[id]].status

(* C37: every module whose status is 'active' has all of its declared      *)
(* dependencies registered and 'active', in every reachable state, under   *)
(* every interleaving of overlapping activate, deactivate and unregister.  *)
C37_ActiveModuleHasActiveDependencies ==
    \A id \in ModuleIds :
        statusOf(id) = "active" => \A depId \in dependencies(id) : statusOf(depId) = "active"

\* the ids of activationOrder
ordered == {activationOrder[k] : k \in 1..Len(activationOrder)}

(* C38: activationOrder lists exactly the modules whose status is 'active' *)
(* (a module on its way out, 'deactivating', is still listed), each        *)
(* exactly once, also when activate is called again for a module whose     *)
(* activation is still in progress; a deactivateAll that has completed     *)
(* leaves no module 'active'.                                              *)
C38_ActivationOrderListsActiveModulesOnce ==
    /\ \A id \in ModuleIds : statusOf(id) = "active" => id \in ordered
    /\ \A id \in ordered : statusOf(id) \in {"active", "deactivating"}
    /\ \A j, k \in 1..Len(activationOrder) : activationOrder[j] = activationOrder[k] => j = k
    /\ (last.op \in {"deactivateAll", "settled"} /\ last.completed = "deactivateAll")
       => \A id \in ModuleIds : statusOf(id) # "active"

====
